---- MODULE Spec2Model ----
(***************************************************************************)
(* Verification model of the HunterSimOptimizer build optimizer            *)
(* (hunter-sim/run_optimization.py, hunter-sim/gui_multi.py,               *)
(* hunter-sim/hunters.py).                                                 *)
(*                                                                         *)
(* Three specifications share the variables below:                         *)
(*   Spec     run_optimization(): the tier loop, successive halving, the   *)
(*            top-10 heaps, the progress file and the result file, with    *)
(*            the GUI (poll, stop) as the environment;                     *)
(*   SpecTop  update_top_lists / finalize_top_lists fed with more results  *)
(*            than a heap holds;                                           *)
(*   SpecGen  BuildGenerator's random walks, extend_elite_pattern and the  *)
(*            talent mutation, one clicked point per step.                 *)
(*                                                                         *)
(* Numbers: avg_stage, max_stage, damage and xp are integers;              *)
(* avg_loot_per_hour is counted in units of 100000 (so 1e6 is 10); a       *)
(* composite score is kept times 10; survival_rate is the fraction         *)
(* num/den; a tier fraction is a percentage.                               *)
(***************************************************************************)
EXTENDS Integers, Sequences, FiniteSets, TLC

VARIABLES
    \* ---- run_optimization (driver) ----
    pc,                 \* position in run_optimization / the generator
    level,              \* config['level']
    mode,               \* "normal" | "fast" | "massive" | "ultra" (config flags)
    builds_per_gen,     \* config['builds_per_tier']
    generation,         \* tier counter, 1-based once a tier has started
    batch_configs,      \* candidates collected for the current tier
    tested_builds,      \* canonical keys seen in the current tier
    results,            \* build results of all tiers so far
    gen_results,        \* build results of the current tier
    top_by,             \* metric -> heap (list) of <<value, id, build_result>>
    top_lists,          \* metric -> sorted list once finalize_top_lists ran
    generation_history, \* per-tier summary records
    total_sims,         \* driver's simulation counter
    tested,             \* driver's build counter
    next_id,            \* id() of the next build_result object
    id_order,           \* whether later objects get larger or smaller ids
    progress_file,      \* [kind: "absent"|"empty"|"record", generation, progress]
    result_file,        \* "absent" | "error" | "complete"
    \* ---- evaluate_builds_successive_halving (locals) ----
    sh,
    \* ---- environment: the GUI ----
    stop_event,         \* HunterTab.stop_event
    observed,           \* what the last _poll_subprocess read of the progress file
    faults,             \* ghost: how many progress-record writes have raised
    submitted,          \* ghost: the keys of the candidates handed to successive
                        \* halving so far in this run, in order
    \* ---- BuildGenerator / extend_elite_pattern (locals) ----
    gen,
    \* ---- Hunter and the Simulation that runs it ----
    hunter,
    \* ---- MultiHunterGUI: the sequential run of several hunters ----
    gui,
    \* ---- history of the run's outward effects ----
    effects             \* ghost: calls of run_irl_baseline, writes of the result
                        \* file, whether rust_sim.simulate_batch has raised

vars == <<pc, level, mode, builds_per_gen, generation, batch_configs, tested_builds,
          results, gen_results, top_by, top_lists, generation_history, total_sims,
          tested, next_id, id_order, progress_file, result_file, sh, stop_event,
          observed, faults, submitted, gen, hunter, gui, effects>>

driver_vars == <<level, mode, builds_per_gen, generation, batch_configs, tested_builds,
                 results, gen_results, top_by, top_lists, generation_history,
                 total_sims, tested, next_id, id_order, progress_file, result_file,
                 sh, stop_event, observed, faults, submitted, hunter, gui, effects>>

-----------------------------------------------------------------------------
(* Bounds of the model *)

MaxLevel == 11          \* the driver runs at level MaxLevel - 1 and MaxLevel
MaxBuilds == 4          \* largest builds_per_tier of a one-tier run
MaxTierBuilds == 2      \* largest builds_per_tier of a run with several tiers
MaxFaults == 1          \* progress-record writes that raise in one run
MaxPush == 11           \* results fed to the heaps in SpecTop
GenLevel == 31          \* hunter level of the generator runs (SpecGen)
ThreeTierLevel == 21    \* level of the three-tier runs (SpecLong)
SixTierLevel == 41      \* level of the six-tier runs (SpecLong)

(* Program constants *)

TopK == 10              \* size of each top-10 heap
INF == 1000000          \* float('inf'): an unlimited max

Max(a, b) == IF a >= b THEN a ELSE b
Min(a, b) == IF a <= b THEN a ELSE b

-----------------------------------------------------------------------------
(* Hunter tables: Ozzy, projected on four talents and three attributes.    *)
(* Names, order, costs, maxes, dependencies and gates are Ozzy's.          *)

TalentsList == <<"death_is_my_companion", "tricksters_boon", "unfair_advantage",
                 "legacy_of_ultima">>
AttrsList == <<"living_off_the_land", "wings_of_ibu", "gift_of_medusa">>

Talents == {TalentsList[i] : i \in 1..Len(TalentsList)}
Attrs == {AttrsList[i] : i \in 1..Len(AttrsList)}

talent_max == [t \in Talents |->
    CASE t = "death_is_my_companion" -> 2
      [] t = "tricksters_boon" -> 1
      [] t = "unfair_advantage" -> 5
      [] t = "legacy_of_ultima" -> 50]

attr_costs == [a \in Attrs |->
    CASE a = "living_off_the_land" -> 1
      [] a = "wings_of_ibu" -> 2
      [] a = "gift_of_medusa" -> 3]

attr_max == [a \in Attrs |->
    CASE a = "living_off_the_land" -> INF
      [] a = "wings_of_ibu" -> 5
      [] a = "gift_of_medusa" -> 5]

\* attribute_dependencies: attr -> set of <<required attr, required level>>
attribute_dependencies == [a \in Attrs |->
    CASE a = "living_off_the_land" -> {}
      [] a = "wings_of_ibu" -> {<<"living_off_the_land", 1>>}
      [] a = "gift_of_medusa" -> {}]

\* attribute_point_gates: attr -> points to spend elsewhere first (0: no gate)
GatedAttrs == {"gift_of_medusa"}
attribute_point_gates == [a \in GatedAttrs |-> 88]

\* Ozzy defines no attribute_exclusions: getattr(..., []) gives the empty list
attribute_exclusions == {}

talent_requires_all_maxed == {"legacy_of_ultima"}

-----------------------------------------------------------------------------
(* Sequence helpers *)

RECURSIVE SeqSum(_)
SeqSum(s) == IF s = <<>> THEN 0 ELSE Head(s) + SeqSum(Tail(s))

Range(s) == {s[i] : i \in 1..Len(s)}

Take(s, n) == SubSeq(s, 1, Min(n, Len(s)))

\* list.sort(key=..., reverse=True) and sorted(..., reverse=True) on a list of
\* <<key, item>> pairs: stable, descending by key
RECURSIVE InsertDesc(_, _)
InsertDesc(sorted, x) ==
    IF sorted = <<>> THEN <<x>>
    ELSE IF Head(sorted)[1] >= x[1]
         THEN <<Head(sorted)>> \o InsertDesc(Tail(sorted), x)
         ELSE <<x>> \o sorted

RECURSIVE SortDesc(_)
SortDesc(s) ==
    IF s = <<>> THEN <<>>
    ELSE InsertDesc(SortDesc(SubSeq(s, 1, Len(s) - 1)), s[Len(s)])

-----------------------------------------------------------------------------
(* Builds and simulation results *)

\* A build is [talents |-> level per talent, attributes |-> level per attribute].
\* json.dumps / json.loads of a config keeps exactly these two dicts of the
\* fields the optimizer varies, so a config_json is modelled by the build.

NoTalents == [t \in Talents |-> 0]
NoAttrs == [a \in Attrs |-> 0]

TalentSpent(talents) == SeqSum([i \in 1..Len(TalentsList) |-> talents[TalentsList[i]]])

AttrSpent(attrs) ==
    SeqSum([i \in 1..Len(AttrsList) |-> attrs[AttrsList[i]] * attr_costs[AttrsList[i]]])

\* What one batch simulation of a build can report (avg_stage, max_stage,
\* avg_loot_per_hour in units of 100000, avg_damage, avg_xp).
SimOutcomes ==
    { [avg_stage |-> 20, max_stage |-> 24, avg_loot_per_hour |-> 2,
       avg_damage |-> 5, avg_xp |-> 7],
      [avg_stage |-> 40, max_stage |-> 41, avg_loot_per_hour |-> 1,
       avg_damage |-> 6, avg_xp |-> 3] }

\* rust_sim.simulate_batch / python_simulate_batch on one config: the outcome o
\* tagged with the config it simulated and the number of simulations.
SimResult(config, o, sims) ==
    [avg_stage |-> o.avg_stage, max_stage |-> o.max_stage,
     avg_loot_per_hour |-> o.avg_loot_per_hour, avg_damage |-> o.avg_damage,
     avg_xp |-> o.avg_xp, of |-> config, sims |-> sims, src |-> "sim"]

\* random.uniform(-0.05, 0.05), in percent: both ends and the middle
NoiseChoices == {-5, 0, 5}

\* a similarity-cache hit: the stored result with noise on avg_stage
CachedResult(stored, noise) ==
    LET avg == (stored.avg_stage * (100 + noise)) \div 100
    IN [stored EXCEPT !.avg_stage = avg,
                      !.max_stage = Max(stored.max_stage, avg),
                      !.src = "cache"]

\* sorted(d.items(), key=lambda x: x[1], reverse=True)[:3]
TopThree(names, levels) ==
    LET pairs == SortDesc([i \in 1..Len(names) |-> <<levels[names[i]], names[i]>>])
    IN Take(pairs, 3)

similarity_key(config) ==
    <<TopThree(TalentsList, config.talents), TopThree(AttrsList, config.attributes)>>

\* score = avg_stage * 0.7 + min(avg_loot / 1e6, 1.0) * 300 * 0.3, times 10
Score10(result) == 7 * result.avg_stage + 90 * Min(result.avg_loot_per_hour, 10)

\* the mode's (base_sims, rounds, survival_rate as num/den)
ModeParams(m) ==
    CASE m = "ultra"   -> [base_sims |-> 4,  rounds |-> 6, num |-> 1, den |-> 20]
      [] m = "massive" -> [base_sims |-> 8,  rounds |-> 5, num |-> 1, den |-> 10]
      [] m = "fast"    -> [base_sims |-> 16, rounds |-> 4, num |-> 1, den |-> 4]
      [] OTHER         -> [base_sims |-> 64, rounds |-> 3, num |-> 1, den |-> 2]

\* keep_count = max(1, int(n * survival_rate))
KeepCount(n, num, den) == Max(1, (n * num) \div den)

-----------------------------------------------------------------------------
(* heapq, as add_to_top_10 uses it.  A heap is a Python list, here a       *)
(* sequence whose element i+1 is list index i; an item is the tuple        *)
(* <<metric_value, id(build_result), build_result>>.                       *)

\* tuple comparison a < b: ids are unique, so the third field never decides
ItemLess(a, b) == a[1] < b[1] \/ (a[1] = b[1] /\ a[2] < b[2])

\* heapq._siftdown(heap, startpos, pos), with newitem kept aside
RECURSIVE siftdown(_, _, _, _)
siftdown(heap, startpos, pos, newitem) ==
    IF pos > startpos
    THEN LET parentpos == (pos - 1) \div 2
             parent == heap[parentpos + 1]
         IN IF ItemLess(newitem, parent)
            THEN siftdown([heap EXCEPT ![pos + 1] = parent], startpos, parentpos, newitem)
            ELSE [heap EXCEPT ![pos + 1] = newitem]
    ELSE [heap EXCEPT ![pos + 1] = newitem]

\* heapq._siftup(heap, pos): bubble the smaller child up to a leaf, then sift
\* newitem down from there
RECURSIVE siftup(_, _, _, _)
siftup(heap, startpos, pos, newitem) ==
    LET endpos == Len(heap)
        childpos == 2 * pos + 1
    IN IF childpos < endpos
       THEN LET rightpos == childpos + 1
                c == IF rightpos < endpos
                        /\ ~ItemLess(heap[childpos + 1], heap[rightpos + 1])
                     THEN rightpos ELSE childpos
            IN siftup([heap EXCEPT ![pos + 1] = heap[c + 1]], startpos, c, newitem)
       ELSE siftdown(heap, startpos, pos, newitem)

heappush(heap, item) == siftdown(Append(heap, item), 0, Len(heap), item)

heapreplace(heap, item) == siftup([heap EXCEPT ![1] = item], 0, 0, item)

Metrics == {"max_stage", "avg_stage", "avg_loot_per_hour", "avg_damage", "avg_xp"}

\* build_result.get(metric_key, 0)
Metric(build_result, metric_key) ==
    CASE metric_key = "max_stage" -> build_result.max_stage
      [] metric_key = "avg_stage" -> build_result.avg_stage
      [] metric_key = "avg_loot_per_hour" -> build_result.avg_loot_per_hour
      [] metric_key = "avg_damage" -> build_result.avg_damage
      [] metric_key = "avg_xp" -> build_result.avg_xp

\* faulty variant: a heap that stops accepting results once it holds ten
add_to_first_10(heap, build_result, metric_key) ==
    IF Len(heap) < TopK
    THEN heappush(heap, <<Metric(build_result, metric_key), build_result.oid, build_result>>)
    ELSE heap

add_to_top_10(heap, build_result, metric_key) ==
    LET metric_value == Metric(build_result, metric_key)
        item == <<metric_value, build_result.oid, build_result>>
    IN IF Len(heap) < TopK THEN heappush(heap, item)
       ELSE IF metric_value > heap[1][1] THEN heapreplace(heap, item)
       ELSE heap

update_top_lists(tops, build_result) ==
    [m \in Metrics |-> add_to_top_10(tops[m], build_result, m)]

\* sorted([item[2] for item in heap], key=metric, reverse=True)
finalize_top_lists(tops) ==
    [m \in Metrics |->
        LET keyed == SortDesc([i \in 1..Len(tops[m]) |->
                                  <<Metric(tops[m][i][3], m), tops[m][i][3]>>])
        IN [i \in 1..Len(keyed) |-> keyed[i][2]]]

EmptyTops == [m \in Metrics |-> <<>>]

-----------------------------------------------------------------------------
(* evaluate_builds_successive_halving *)

\* locals of the call; best_score_so_far = -1 while it is not in locals().
\* entered and kept are history: per completed round, how many configs
\* entered it and how many it left surviving.
IdleSH ==
    [surviving_configs |-> <<>>, current_sims |-> 0, round_num |-> 0, rounds |-> 0,
     num |-> 1, den |-> 1, similarity_cache |-> <<>>, config_scores |-> <<>>,
     best_score_so_far |-> -1, cache_hits |-> 0, entered |-> <<>>, kept |-> <<>>,
     final_results |-> <<>>, final_sims |-> 0,
     simulated |-> 0]    \* ghost: simulations this call has run so far

\* the similarity cache is a list of <<similarity_key, result>> with unique keys
InCache(cache, key) == \E i \in 1..Len(cache) : cache[i][1] = key

CacheGet(cache, key) == cache[CHOOSE i \in 1..Len(cache) : cache[i][1] = key][2]

\* the two scoring loops (cached results, then evaluated results).  items is
\* a list of <<config, result>>; acc is [scores, best, cache]; store says
\* whether this is the evaluated loop, which also fills the cache.
RECURSIVE ScoreLoop(_, _, _, _)
ScoreLoop(items, round_num, store, acc) ==
    IF items = <<>> THEN acc
    ELSE LET config == Head(items)[1]
             result == Head(items)[2]
             skip == /\ round_num >= 2
                     /\ acc.best # -1
                     /\ 100 * result.avg_stage < 3 * acc.best
             score == Score10(result)
             key == similarity_key(config)
         IN IF skip THEN ScoreLoop(Tail(items), round_num, store, acc)
            ELSE ScoreLoop(Tail(items), round_num, store,
                   [scores |-> Append(acc.scores, <<score, config>>),
                    best |-> IF acc.best = -1 \/ score > acc.best
                             THEN score ELSE acc.best,
                    cache |-> IF store /\ ~InCache(acc.cache, key)
                              THEN Append(acc.cache, <<key, result>>)
                              ELSE acc.cache])

\* one iteration of `for round_num in range(rounds)` on the locals l, where
\* noise[i] is the noise drawn for the i-th cache hit and outs[i] the outcome
\* of simulating the i-th config that missed the cache
SHRoundBody(l, noise, outs) ==
    LET configs == l.surviving_configs
        isHit(i) == InCache(l.similarity_cache, similarity_key(configs[i]))
        hitIdx == SelectSeq([i \in 1..Len(configs) |-> i], isHit)
        missIdx == SelectSeq([i \in 1..Len(configs) |-> i], LAMBDA i : ~isHit(i))
        cached_results ==
            [j \in 1..Len(hitIdx) |->
                <<configs[hitIdx[j]],
                  CachedResult(CacheGet(l.similarity_cache,
                                        similarity_key(configs[hitIdx[j]])), noise[j])>>]
        filtered_configs == [j \in 1..Len(missIdx) |-> configs[missIdx[j]]]
        evaluated ==
            [j \in 1..Len(filtered_configs) |->
                <<filtered_configs[j],
                  SimResult(filtered_configs[j], outs[j], l.current_sims)>>]
        acc0 == [scores |-> <<>>, best |-> l.best_score_so_far,
                 cache |-> l.similarity_cache]
        acc1 == ScoreLoop(cached_results, l.round_num, FALSE, acc0)
        acc2 == ScoreLoop(evaluated, l.round_num, TRUE, acc1)
        \* `if surviving_configs:` - the block that rebuilds config_scores
        ran == filtered_configs # <<>>
        config_scores == SortDesc(IF ran THEN acc2.scores ELSE l.config_scores)
        keep_count == KeepCount(Len(config_scores), l.num, l.den)
        survivors == [i \in 1..Min(keep_count, Len(config_scores)) |-> config_scores[i][2]]
    IN [l EXCEPT !.surviving_configs = survivors,
                 !.config_scores = config_scores,
                 !.similarity_cache = IF ran THEN acc2.cache ELSE @,
                 !.best_score_so_far = IF ran THEN acc2.best ELSE @,
                 !.cache_hits = Len(hitIdx),
                 !.simulated = @ + Len(filtered_configs) * l.current_sims,
                 !.current_sims = 2 * @,
                 !.round_num = @ + 1,
                 !.entered = Append(@, Len(configs)),
                 !.kept = Append(@, Len(survivors))]

\* how many configs of l.surviving_configs hit / miss the cache
CacheHits(l) ==
    Cardinality({i \in 1..Len(l.surviving_configs) :
        InCache(l.similarity_cache, similarity_key(l.surviving_configs[i]))})

\* faulty variant: a final evaluation that serves the survivors from the similarity
\* cache instead of simulating them
SHFinalFromCache(l, outs) ==
    [l EXCEPT !.final_sims = l.current_sims,
              !.final_results =
                  [i \in 1..Len(l.surviving_configs) |->
                      <<l.surviving_configs[i],
                        IF InCache(l.similarity_cache, similarity_key(l.surviving_configs[i]))
                        THEN CachedResult(CacheGet(l.similarity_cache,
                                 similarity_key(l.surviving_configs[i])), 0)
                        ELSE SimResult(l.surviving_configs[i], outs[i], l.current_sims)>>]]

\* the final evaluation: every survivor simulated at final_sims = current_sims
SHFinalBody(l, outs) ==
    [l EXCEPT !.final_sims = l.current_sims,
              !.simulated = @ + Len(l.surviving_configs) * l.current_sims,
              !.final_results =
                  [i \in 1..Len(l.surviving_configs) |->
                      <<l.surviving_configs[i],
                        SimResult(l.surviving_configs[i], outs[i], l.current_sims)>>]]

-----------------------------------------------------------------------------
(* run_optimization: helpers *)

\* the progressive curriculum, tier fractions in percent
Tiers(lvl) ==
    IF lvl <= 10 THEN <<100>>
    ELSE IF lvl <= 20 THEN <<50, 100>>
    ELSE IF lvl <= 40 THEN <<25, 50, 100>>
    ELSE <<5, 10, 25, 50, 75, 100>>

\* talent_points = max(1, int(level * f)), attribute_points = max(3, int(level * 3 * f))
TierTalentPoints(lvl, pct) == Max(1, (lvl * pct) \div 100)
TierAttrPoints(lvl, pct) == Max(3, (lvl * 3 * pct) \div 100)

\* build_key: the non-zero (name, level) pairs of both dicts
build_key(b) ==
    <<{<<t, b.talents[t]>> : t \in {x \in Talents : b.talents[x] > 0}},
      {<<a, b.attributes[a]>> : a \in {x \in Attrs : b.attributes[x] > 0}}>>

\* A talent walk that always clicks the first valid talent of the table.
RECURSIVE FirstValidTalents(_, _, _)
FirstValidTalents(i, remaining, acc) ==
    IF i > Len(TalentsList) THEN acc
    ELSE LET t == TalentsList[i]
             n == Min(remaining, talent_max[t])
         IN FirstValidTalents(i + 1, remaining - n, [acc EXCEPT ![t] = n])

\* An attribute walk that clicks wings_of_ibu w times (after its prerequisite)
\* and living_off_the_land for every other point.
WingsAttrs(w, ap) ==
    [NoAttrs EXCEPT !["wings_of_ibu"] = w,
                    !["living_off_the_land"] = ap - w * attr_costs["wings_of_ibu"]]

\* generate_smart_sample(sample_size=1), as the driver sees it: the samples
\* the tier's generator can return are drawn from this set of builds (the
\* walks themselves are the subject of SpecGen).
SampleBuilds(tp, ap) ==
    {[talents |-> FirstValidTalents(1, tp, NoTalents), attributes |-> WingsAttrs(w, ap)] :
        w \in {x \in 0..Min(attr_max["wings_of_ibu"], MaxBuilds - 1) :
                  ap - x * attr_costs["wings_of_ibu"] >= 1}}

\* extend_elite_pattern followed by the mutation, as the driver sees it: a
\* build of the new tier's sample set that keeps every point of the elite.
ExtendedElites(elite, tp, ap) ==
    {b \in SampleBuilds(tp, ap) :
        /\ \A t \in Talents : b.talents[t] >= elite.talents[t]
        /\ \A a \in Attrs : b.attributes[a] >= elite.attributes[a]}

\* the order in which the samples of one tier are drawn
RECURSIVE SampleOrder(_)
SampleOrder(S) ==
    IF S = {} THEN <<>>
    ELSE LET b == CHOOSE x \in S : \A y \in S :
                      x.attributes["wings_of_ibu"] <= y.attributes["wings_of_ibu"]
         IN <<b>> \o SampleOrder(S \ {b})

\* the keys of the builds in a list
KeysOf(batch) == {build_key(batch[i]) : i \in 1..Len(batch)}

\* faulty variant: promoted builds that are never compared with tested_builds
PromoteAll(extended, batch) == batch \o extended

\* the promoted-builds loop: each extended elite is appended to the batch
\* unless its key was already seen in this tier (tested_builds starts empty)
RECURSIVE PromoteLoop(_, _)
PromoteLoop(extended, batch) ==
    IF extended = <<>> THEN batch
    ELSE IF build_key(Head(extended)) \in KeysOf(batch)
         THEN PromoteLoop(Tail(extended), batch)
         ELSE PromoteLoop(Tail(extended), Append(batch, Head(extended)))

\* prev_gen_results, num_promote and top_builds of a tier
PrevGenResults(res, bpg) ==
    IF Len(res) >= bpg THEN SubSeq(res, Len(res) - bpg + 1, Len(res)) ELSE res

NumPromote(res, bpg) == Min(Max(100, (bpg * 10) \div 100), Len(PrevGenResults(res, bpg)))

TopBuilds(res, bpg) ==
    LET prev == PrevGenResults(res, bpg)
        keyed == SortDesc([i \in 1..Len(prev) |-> <<prev[i].max_stage, prev[i]>>])
    IN [i \in 1..NumPromote(res, bpg) |-> keyed[i][2]]

\* the driver's estimate of the simulations one successive-halving call used
RECURSIVE TotalShSims(_, _, _, _, _)
TotalShSims(k, surviving, sims_per_build, num, den) ==
    IF k = 0 THEN 0
    ELSE surviving * sims_per_build
         + TotalShSims(k - 1, KeepCount(surviving, num, den), 2 * sims_per_build, num, den)

\* the loop over sh_results: build_result objects, in order, with their ids
BuildResults(final_results, first_id, order, pct) ==
    [i \in 1..Len(final_results) |->
        LET config == final_results[i][1]
            result == final_results[i][2]
        IN [talents |-> config.talents, attributes |-> config.attributes,
            avg_stage |-> result.avg_stage, max_stage |-> result.max_stage,
            avg_loot_per_hour |-> result.avg_loot_per_hour,
            avg_damage |-> result.avg_damage, avg_xp |-> result.avg_xp,
            oid |-> IF order = "asc" THEN first_id + i - 1 ELSE 0 - (first_id + i - 1),
            tier |-> pct, sims |-> result.sims, src |-> result.src, of |-> result.of]]

RECURSIVE PushAll(_, _)
PushAll(tops, brs) ==
    IF brs = <<>> THEN tops ELSE PushAll(update_top_lists(tops, Head(brs)), Tail(brs))

\* progress records: the fields the GUI's progress bar reads
NoFile == [kind |-> "absent", generation |-> 0, progress |-> 0]
Truncated == [kind |-> "empty", generation |-> 0, progress |-> 0]
Record(g, p) == [kind |-> "record", generation |-> g, progress |-> p]
NoProgressKey == -1     \* the record carries 'progress_percent', not 'progress'

\* no Hunter object exists while the driver, the heaps or the generator run
NoHunter == [kind |-> "none"]

\* no sequential run of several hunters is in progress
NoGui == [kind |-> "none"]

\* nothing has happened yet
NoEffects == [run_irl_baseline |-> 0, result_writes |-> 0, rust_raised |-> FALSE]

-----------------------------------------------------------------------------
(* run_optimization: the subprocess, one action per step between two        *)
(* points where the GUI can look at the files                               *)

Modes == {"normal"}

\* whether a write of the progress record succeeds (TRUE) or raises
WriteOutcomes == IF faults < MaxFaults THEN {TRUE, FALSE} ELSE {TRUE}

Init ==
    /\ pc = "legacy"
    /\ level \in {MaxLevel - 1, MaxLevel}
    /\ mode \in Modes
    /\ builds_per_gen \in 1..(IF Len(Tiers(level)) = 1 THEN MaxBuilds ELSE MaxTierBuilds)
    /\ generation = 0
    /\ batch_configs = <<>>
    /\ tested_builds = {}
    /\ results = <<>>
    /\ gen_results = <<>>
    /\ top_by = EmptyTops
    /\ top_lists = EmptyTops
    /\ generation_history = <<>>
    /\ total_sims = 0
    /\ tested = 0
    /\ next_id = 1
    /\ id_order = "asc"
    /\ progress_file = NoFile
    /\ result_file = "absent"
    /\ sh = IdleSH
    /\ stop_event = FALSE
    /\ observed = "nothing"
    /\ faults = 0
    /\ submitted = <<>>
    /\ hunter = NoHunter
    /\ gui = NoGui
    /\ effects = NoEffects
    /\ gen = <<>>

\* lines 1077-1125: the legacy block runs first; optimize_builds raises
\* (use_baseline is not defined) and the handler writes an error result
Legacy ==
    /\ pc = "legacy"
    /\ result_file' = "error"
    /\ effects' = [effects EXCEPT !.run_irl_baseline = @ + 1, !.result_writes = @ + 1]
    /\ pc' = "init_open"
    /\ UNCHANGED <<gui, hunter, submitted, level, mode, builds_per_gen, generation, batch_configs, tested_builds,
                   results, gen_results, top_by, top_lists, generation_history,
                   total_sims, tested, next_id, id_order, progress_file, sh,
                   stop_event, observed, faults, gen>>

\* lines 1127-1243: the run proper loads the config again, calls
\* run_irl_baseline (line 1158) and opens the progress file for the initial
\* record: open(progress_file, 'w'), not in a try
InitOpen ==
    /\ pc = "init_open"
    /\ effects' = [effects EXCEPT !.run_irl_baseline = @ + 1]
    /\ \E ok \in WriteOutcomes :
        IF ok THEN /\ progress_file' = Truncated
                   /\ pc' = "init_dump"
                   /\ UNCHANGED faults
        ELSE /\ pc' = "except"
             /\ faults' = faults + 1
             /\ UNCHANGED progress_file
    /\ UNCHANGED <<gui, hunter, submitted, level, mode, builds_per_gen, generation, batch_configs, tested_builds,
                   results, gen_results, top_by, top_lists, generation_history,
                   total_sims, tested, next_id, id_order, result_file, sh,
                   stop_event, observed, gen>>

\* lines 1244-1256: json.dump of the initial record and close
InitDump ==
    /\ pc = "init_dump"
    /\ \E ok \in WriteOutcomes :
        IF ok THEN /\ progress_file' = Record(0, 0)
                   /\ pc' = "tier"
                   /\ UNCHANGED faults
        ELSE /\ pc' = "except"
             /\ faults' = faults + 1
             /\ UNCHANGED progress_file
    /\ UNCHANGED <<gui, effects, hunter, submitted, level, mode, builds_per_gen, generation, batch_configs, tested_builds,
                   results, gen_results, top_by, top_lists, generation_history,
                   total_sims, tested, next_id, id_order, result_file, sh,
                   stop_event, observed, gen>>

\* lines 1258-1496: a tier starts; elites are promoted, extended and
\* de-duplicated, then fresh samples are drawn until num_generate unique
\* builds are collected or the attempts run out
TierStart ==
    /\ pc = "tier"
    /\ generation < Len(Tiers(level))
    /\ LET g == generation + 1
           pct == Tiers(level)[g]
           tp == TierTalentPoints(level, pct)
           ap == TierAttrPoints(level, pct)
           promote == g > 1 /\ results # <<>>
           top_builds == IF promote THEN TopBuilds(results, builds_per_gen) ELSE <<>>
           num_generate == IF promote
                           THEN builds_per_gen - NumPromote(results, builds_per_gen)
                           ELSE builds_per_gen
       IN \E extended \in [1..Len(top_builds) -> SampleBuilds(tp, ap)] :
          /\ \A i \in 1..Len(top_builds) :
                extended[i] \in ExtendedElites(top_builds[i], tp, ap)
          /\ LET promoted == PromoteLoop(extended, batch_configs)
                 fresh == {b \in SampleBuilds(tp, ap) : build_key(b) \notin KeysOf(promoted)}
             IN \E S \in SUBSET fresh :
                /\ Cardinality(S) <= num_generate
                \* fewer than num_generate only when the samples ran dry
                /\ Cardinality(S) = num_generate \/ S = fresh
                /\ batch_configs' = promoted \o SampleOrder(S)
                /\ tested_builds' = KeysOf(batch_configs')
                \* lines 1473-1492: a record every 100 collected builds,
                \* written to the temp file and replaced, errors ignored
                /\ IF Len(batch_configs') >= 100
                   THEN \E ok \in WriteOutcomes :
                          /\ progress_file' = IF ok THEN Record(g, NoProgressKey)
                                              ELSE progress_file
                          /\ faults' = IF ok THEN faults ELSE faults + 1
                   ELSE UNCHANGED <<progress_file, faults>>
                /\ pc' = IF batch_configs' # <<>> THEN "pre_sh" ELSE "batch_open"
          /\ generation' = g
          /\ gen_results' = <<>>
    /\ UNCHANGED <<gui, effects, hunter, submitted, level, mode, builds_per_gen, results, top_by, top_lists,
                   generation_history, total_sims, tested, next_id, id_order,
                   result_file, sh, stop_event, observed, gen>>

\* lines 1505-1572: the record announcing the simulation phase goes to the
\* temp file outside any try (only os.replace is guarded), then successive
\* halving is called with the mode's parameters
PreSH ==
    /\ pc = "pre_sh"
    /\ \E outcome \in {"ok"} \cup (IF faults < MaxFaults
                                     THEN {"temp_fails", "replace_fails"} ELSE {}) :
        /\ progress_file' = IF outcome = "ok" THEN Record(generation, NoProgressKey)
                            ELSE progress_file
        /\ faults' = IF outcome = "ok" THEN faults ELSE faults + 1
        /\ IF outcome = "temp_fails"
           THEN pc' = "except" /\ UNCHANGED <<sh, submitted>>
           ELSE /\ pc' = "sh_round"
                /\ submitted' = submitted \o [i \in 1..Len(batch_configs) |->
                                                build_key(batch_configs[i])]
                /\ sh' = [IdleSH EXCEPT !.surviving_configs = batch_configs,
                                        !.current_sims = ModeParams(mode).base_sims,
                                        !.rounds = ModeParams(mode).rounds,
                                        !.num = ModeParams(mode).num,
                                        !.den = ModeParams(mode).den]
    /\ UNCHANGED <<gui, effects, hunter, level, mode, builds_per_gen, generation, batch_configs, tested_builds,
                   results, gen_results, top_by, top_lists, generation_history,
                   total_sims, tested, next_id, id_order, result_file,
                   stop_event, observed, gen>>

\* lines 235-424: one round.  Its progress updates rewrite the record through
\* the temp file inside a try and keep the generation and progress fields.
SHRound ==
    /\ pc = "sh_round"
    /\ sh.round_num < sh.rounds
    /\ Len(sh.surviving_configs) > 1
    /\ \E noise \in [1..CacheHits(sh) -> NoiseChoices],
          outs \in [1..(Len(sh.surviving_configs) - CacheHits(sh)) -> SimOutcomes] :
          sh' = SHRoundBody(sh, noise, outs)
    /\ \E ok \in WriteOutcomes :
          faults' = IF ~ok /\ progress_file.kind = "record" THEN faults + 1 ELSE faults
    /\ UNCHANGED <<pc, gui, effects, hunter, submitted, level, mode, builds_per_gen, generation, batch_configs,
                   tested_builds, results, gen_results, top_by, top_lists,
                   generation_history, total_sims, tested, next_id, id_order,
                   progress_file, result_file, stop_event, observed, gen>>

\* lines 236-238 and 426-478: the loop is over; the survivors are simulated
\* at final_sims and returned
SHFinal ==
    /\ pc = "sh_round"
    /\ sh.round_num >= sh.rounds \/ Len(sh.surviving_configs) <= 1
    /\ \E outs \in [1..Len(sh.surviving_configs) -> SimOutcomes] :
          sh' = SHFinalBody(sh, outs)
    /\ \E ok \in WriteOutcomes :
          faults' = IF ~ok /\ progress_file.kind = "record" THEN faults + 1 ELSE faults
    /\ pc' = "process"
    /\ UNCHANGED <<gui, effects, hunter, submitted, level, mode, builds_per_gen, generation, batch_configs,
                   tested_builds, results, gen_results, top_by, top_lists,
                   generation_history, total_sims, tested, next_id, id_order,
                   progress_file, result_file, stop_event, observed, gen>>

\* faulty variant: a driver that treats every tier as the final one
every_tier_is_final(tier_fraction) == TRUE

\* line 1265: is_final_tier = (tier_fraction == 1.00)
is_final_tier(tier_fraction) == tier_fraction = 100

\* lines 1575-1618: the returned results become build_result objects; only
\* in the final tier are they pushed to the heaps
Process ==
    /\ pc = "process"
    /\ LET pct == Tiers(level)[generation]
           brs == BuildResults(sh.final_results, next_id, id_order, pct)
           params == ModeParams(mode)
       IN /\ gen_results' = gen_results \o brs
          /\ top_by' = IF is_final_tier(pct) THEN PushAll(top_by, brs) ELSE top_by
          /\ next_id' = next_id + Len(brs)
          /\ tested' = tested + Len(batch_configs)
          /\ total_sims' = total_sims
                + TotalShSims(params.rounds + 1, Len(batch_configs), params.base_sims,
                              params.num, params.den)
    /\ batch_configs' = <<>>
    /\ sh' = IdleSH
    /\ pc' = "batch_open"
    /\ UNCHANGED <<gui, effects, hunter, submitted, level, mode, builds_per_gen, generation, tested_builds, results,
                   top_lists, generation_history, id_order, progress_file,
                   result_file, stop_event, observed, faults, gen>>

\* lines 1620-1627: open(progress_file, 'w') inside try/except
BatchOpen ==
    /\ pc = "batch_open"
    /\ IF gen_results = <<>>
       THEN pc' = "history" /\ UNCHANGED <<progress_file, faults>>
       ELSE \E ok \in WriteOutcomes :
              IF ok THEN /\ progress_file' = Truncated
                         /\ pc' = "batch_dump"
                         /\ UNCHANGED faults
              ELSE /\ pc' = "history"
                   /\ faults' = faults + 1
                   /\ UNCHANGED progress_file
    /\ UNCHANGED <<gui, effects, hunter, submitted, level, mode, builds_per_gen, generation, batch_configs, tested_builds,
                   results, gen_results, top_by, top_lists, generation_history,
                   total_sims, tested, next_id, id_order, result_file, sh,
                   stop_event, observed, gen>>

\* lines 1628-1642: json.dump of the record after the batch; errors ignored
BatchDump ==
    /\ pc = "batch_dump"
    /\ \E ok \in WriteOutcomes :
        IF ok
        THEN /\ progress_file' =
                  Record(generation,
                         (100 * ((generation - 1) * builds_per_gen + Len(gen_results)))
                            \div (builds_per_gen * Len(Tiers(level))))
             /\ UNCHANGED faults
        ELSE faults' = faults + 1 /\ UNCHANGED progress_file
    /\ pc' = "history"
    /\ UNCHANGED <<gui, effects, hunter, submitted, level, mode, builds_per_gen, generation, batch_configs, tested_builds,
                   results, gen_results, top_by, top_lists, generation_history,
                   total_sims, tested, next_id, id_order, result_file, sh,
                   stop_event, observed, gen>>

\* gen_best_max_so_far / gen_best_avg_so_far: the first result holding the
\* largest value (replaced only by a strictly larger one)
FirstBest(brs, metric_key) ==
    brs[CHOOSE i \in 1..Len(brs) :
            /\ \A j \in 1..Len(brs) : Metric(brs[j], metric_key) <= Metric(brs[i], metric_key)
            /\ \A j \in 1..(i - 1) : Metric(brs[j], metric_key) < Metric(brs[i], metric_key)]

\* faulty variant: the tier loop ends after its first tier
FirstTierOnly == "finalize"

\* `for generation, (tier_pct, tier_name) in enumerate(tiers, 1)`: the next
\* tier, or the code after the loop
AfterTier == IF generation < Len(Tiers(level)) THEN "tier" ELSE "finalize"

\* lines 1644-1668: the tier's results join the overall results and the
\* tier's summary joins the history
History ==
    /\ pc = "history"
    /\ results' = results \o gen_results
    /\ IF gen_results = <<>>
       THEN pc' = AfterTier /\ UNCHANGED generation_history
       ELSE LET gen_best_max == FirstBest(gen_results, "max_stage")
                gen_best_avg == FirstBest(gen_results, "avg_stage")
                pct == Tiers(level)[generation]
            IN /\ generation_history' = Append(generation_history,
                     [generation |-> generation,
                      talent_points |-> TierTalentPoints(level, pct),
                      attribute_points |-> TierAttrPoints(level, pct),
                      builds_tested |-> Len(gen_results),
                      best_max_stage |-> gen_best_max.max_stage,
                      best_avg_stage |-> gen_best_avg.avg_stage,
                      best_talents |-> gen_best_max.talents,
                      best_attributes |-> gen_best_max.attributes,
                      unique_builds_total |-> Cardinality(tested_builds)])
               /\ pc' = "gen_open"
    /\ UNCHANGED <<gui, effects, hunter, submitted, level, mode, builds_per_gen, generation, batch_configs, tested_builds,
                   gen_results, top_by, top_lists, total_sims, tested, next_id,
                   id_order, progress_file, result_file, sh, stop_event, observed,
                   faults, gen>>

\* line 1674: open(progress_file, 'w') of the tier's final record, not in a try
GenOpen ==
    /\ pc = "gen_open"
    /\ \E ok \in WriteOutcomes :
        IF ok THEN /\ progress_file' = Truncated
                   /\ pc' = "gen_dump"
                   /\ UNCHANGED faults
        ELSE /\ pc' = "except"
             /\ faults' = faults + 1
             /\ UNCHANGED progress_file
    /\ UNCHANGED <<gui, effects, hunter, submitted, level, mode, builds_per_gen, generation, batch_configs, tested_builds,
                   results, gen_results, top_by, top_lists, generation_history,
                   total_sims, tested, next_id, id_order, result_file, sh,
                   stop_event, observed, gen>>

\* lines 1675-1693: json.dump of the tier's final record and close
GenDump ==
    /\ pc = "gen_dump"
    /\ \E ok \in WriteOutcomes :
        IF ok THEN /\ progress_file' =
                        Record(generation, (generation * 100) \div Len(Tiers(level)))
                   /\ pc' = AfterTier
                   /\ UNCHANGED faults
        ELSE /\ pc' = "except"
             /\ faults' = faults + 1
             /\ UNCHANGED progress_file
    /\ UNCHANGED <<gui, effects, hunter, submitted, level, mode, builds_per_gen, generation, batch_configs, tested_builds,
                   results, gen_results, top_by, top_lists, generation_history,
                   total_sims, tested, next_id, id_order, result_file, sh,
                   stop_event, observed, gen>>

\* lines 1695-1745: the heaps become sorted lists and the final report is
\* written with status 'complete'
Finalize ==
    /\ pc = "finalize"
    /\ top_lists' = finalize_top_lists(top_by)
    /\ result_file' = "complete"
    /\ effects' = [effects EXCEPT !.result_writes = @ + 1]
    /\ pc' = "done"
    /\ UNCHANGED <<gui, hunter, submitted, level, mode, builds_per_gen, generation, batch_configs, tested_builds,
                   results, gen_results, top_by, generation_history, total_sims, tested,
                   next_id, id_order, progress_file, sh, stop_event, observed,
                   faults, gen>>

\* lines 1746-1758: any exception of the run ends in an error result
Except ==
    /\ pc = "except"
    /\ result_file' = "error"
    /\ effects' = [effects EXCEPT !.result_writes = @ + 1]
    /\ pc' = "done"
    /\ UNCHANGED <<gui, hunter, submitted, level, mode, builds_per_gen, generation, batch_configs, tested_builds,
                   results, gen_results, top_by, top_lists, generation_history,
                   total_sims, tested, next_id, id_order, progress_file, sh,
                   stop_event, observed, faults, gen>>

Running == pc \notin {"done"}

\* gui_multi.py _poll_subprocess: while the subprocess runs, the GUI reads
\* the progress file; a file that does not parse is skipped
Poll ==
    /\ Running
    /\ observed' = progress_file.kind
    /\ observed' # observed
    /\ UNCHANGED <<pc, gui, effects, hunter, submitted, level, mode, builds_per_gen, generation, batch_configs,
                   tested_builds, results, gen_results, top_by, top_lists,
                   generation_history, total_sims, tested, next_id, id_order,
                   progress_file, result_file, sh, stop_event, faults, gen>>

\* gui_multi.py _stop_optimization: the Stop button sets the tab's stop_event
StopOptimization ==
    /\ Running
    /\ ~stop_event
    /\ stop_event' = TRUE
    /\ UNCHANGED <<pc, gui, effects, hunter, submitted, level, mode, builds_per_gen, generation, batch_configs,
                   tested_builds, results, gen_results, top_by, top_lists,
                   generation_history, total_sims, tested, next_id, id_order,
                   progress_file, result_file, sh, observed, faults, gen>>

Next ==
    \/ Legacy \/ InitOpen \/ InitDump \/ TierStart \/ PreSH \/ SHRound \/ SHFinal
    \/ Process \/ BatchOpen \/ BatchDump \/ History \/ GenOpen \/ GenDump
    \/ Finalize \/ Except \/ Poll \/ StopOptimization

Spec == Init /\ [][Next]_vars

-----------------------------------------------------------------------------
(* Claims about run_optimization and successive halving (Spec) *)

\* C1: every progress record is published by write-temp-then-replace, so a
\* reader of the progress file during the run never finds it empty or
\* partially written.  (The records of lines 1243, 1627 and 1674 are written
\* with open(progress_file, 'w'), which truncates the file in place.)
C1_ObserverNeverSeesEmpty == observed # "empty"

\* C2: in a call started with more than one candidate, every round leaves
\* max(1, floor(survival_rate * entered)) survivors, entered being the number
\* of candidates that entered that round.
C2_EveryRoundCuts ==
    \A r \in 1..Len(sh.entered) :
        sh.kept[r] = KeepCount(sh.entered[r], sh.num, sh.den)

\* every entry of the five heaps and of the five finalized lists
TopEntries ==
    UNION {{top_by[m][i][3] : i \in 1..Len(top_by[m])} : m \in Metrics}
    \cup UNION {Range(top_lists[m]) : m \in Metrics}

\* C4: a build result enters a heap only while the final (100%) tier is being
\* processed: every entry of every heap and top-10 list was created in the
\* final tier from one of that tier's candidates, and the heaps stay empty
\* until the final tier.
C4_OnlyFinalTierInTopLists ==
    /\ \A e \in TopEntries :
          /\ e.tier = 100
          /\ generation = Len(Tiers(level))
          /\ build_key(e) \in tested_builds
    /\ generation < Len(Tiers(level)) => TopEntries = {}

\* a run with an earlier, partial-budget tier has finished with entries in
\* its top-10 lists
C4_Witness ==
    /\ pc = "done"
    /\ result_file = "complete"
    /\ Len(Tiers(level)) > 1
    /\ \E i \in 1..Len(results) : results[i].tier < 100
    /\ top_lists["max_stage"] # <<>>

\* C5: no similarity-cache result reaches the driver: every result that
\* successive halving returns, and so every tier result and every top-10
\* entry, is a simulation of that very candidate, run at the call's final
\* budget (current_sims after the last round, the largest budget of the call).
C5_ReturnedResultsAreSimulated ==
    /\ \A i \in 1..Len(sh.final_results) :
          LET config == sh.final_results[i][1]
              result == sh.final_results[i][2]
          IN /\ result.src = "sim"
             /\ result.of = config
             /\ result.sims = sh.final_sims
             /\ sh.final_sims = sh.current_sims
             /\ sh.current_sims = ModeParams(mode).base_sims * 2 ^ sh.round_num
    /\ \A e \in TopEntries \cup Range(gen_results) \cup Range(results) :
          /\ e.src = "sim"
          /\ e.of = [talents |-> e.talents, attributes |-> e.attributes]

\* survivors that were served from the cache in the last round have been
\* returned to the driver
C5_Witness ==
    /\ pc = "process"
    /\ sh.cache_hits > 0
    /\ sh.final_results # <<>>

\* C9: a progress-record write that raises is swallowed: a run in which one
\* raised still ends with the report of status 'complete', never with status
\* 'error'.  (The writes of lines 1243, 1512 and 1674 are outside any try.)
C9_WriteFailureSwallowed ==
    pc = "done" /\ faults > 0 => result_file = "complete"

\* C10: once Stop has been requested, the optimizer starts no new tier and
\* no new round of simulations.  (The subprocess never looks at stop_event.)
C10_NoNewWorkAfterStop ==
    [][stop_event =>
          /\ generation' = generation
          /\ sh'.round_num <= sh.round_num \/ sh' = IdleSH
          /\ ~(sh.final_results = <<>> /\ sh'.final_results # <<>>)]_vars

-----------------------------------------------------------------------------
(* SpecTop: the five heaps, fed one final-tier result at a time *)

\* the candidate whose results are pushed
TopConfig ==
    [talents |-> FirstValidTalents(1, MaxLevel, NoTalents),
     attributes |-> WingsAttrs(0, 3 * MaxLevel)]

Init_Top ==
    /\ pc = "top_push"
    /\ level = MaxLevel
    /\ mode = "normal"
    /\ builds_per_gen = MaxPush
    /\ generation = Len(Tiers(MaxLevel))
    /\ batch_configs = <<>>
    /\ tested_builds = {build_key(TopConfig)}
    /\ results = <<>>
    /\ gen_results = <<>>
    /\ top_by = EmptyTops
    /\ top_lists = EmptyTops
    /\ generation_history = <<>>
    /\ total_sims = 0
    /\ tested = 0
    /\ next_id = 1
    /\ id_order \in {"asc", "desc"}
    /\ progress_file = NoFile
    /\ result_file = "absent"
    /\ sh = IdleSH
    /\ stop_event = FALSE
    /\ observed = "nothing"
    /\ faults = 0
    /\ submitted = <<build_key(TopConfig)>>
    /\ hunter = NoHunter
    /\ gui = NoGui
    /\ effects = NoEffects
    /\ gen = <<>>

\* lines 1582-1599 for one result of the final tier
TopPush ==
    /\ pc = "top_push"
    /\ Len(gen_results) < MaxPush
    /\ \E o \in SimOutcomes :
        LET final_results == <<<<TopConfig, SimResult(TopConfig, o, 512)>>>>
            brs == BuildResults(final_results, next_id, id_order, 100)
        IN /\ gen_results' = gen_results \o brs
           /\ top_by' = IF is_final_tier(100) THEN PushAll(top_by, brs) ELSE top_by
    /\ next_id' = next_id + 1
    /\ UNCHANGED <<pc, gui, effects, hunter, submitted, level, mode, builds_per_gen, generation, batch_configs,
                   tested_builds, results, top_lists, generation_history, total_sims,
                   tested, id_order, progress_file, result_file, sh, stop_event,
                   observed, faults, gen>>

\* line 1698: finalize_top_lists()
TopFinalize ==
    /\ pc = "top_push"
    /\ top_lists' = finalize_top_lists(top_by)
    /\ pc' = "top_done"
    /\ UNCHANGED <<gui, effects, hunter, submitted, level, mode, builds_per_gen, generation, batch_configs, tested_builds,
                   results, gen_results, top_by, generation_history, total_sims, tested,
                   next_id, id_order, progress_file, result_file, sh, stop_event,
                   observed, faults, gen>>

Next_Top == TopPush \/ TopFinalize

SpecTop == Init_Top /\ [][Next_Top]_vars

\* C3: after the run each of the five top-10 lists has at most 10 entries,
\* is in descending order of its own metric, and holds the 10 largest values
\* of that metric among the pushed results (all of them when fewer than 10
\* were pushed): each entry is one pushed result, no result twice, and no
\* result left out beats an entry.
C3_TopListsAreTheTenLargest ==
    pc = "top_done" =>
        \A m \in Metrics :
            LET list == top_lists[m]
            IN /\ Len(list) <= 10
               /\ Len(list) = Min(10, Len(gen_results))
               /\ \A i \in 1..(Len(list) - 1) : Metric(list[i], m) >= Metric(list[i + 1], m)
               /\ \A i \in 1..Len(list) : list[i] \in Range(gen_results)
               /\ \A i, j \in 1..Len(list) : i # j => list[i].oid # list[j].oid
               /\ \A r \in Range(gen_results) :
                     r \notin Range(list) =>
                        \A i \in 1..Len(list) : Metric(r, m) <= Metric(list[i], m)

\* more results than a list holds were pushed, the last ones beating earlier
\* ones, and the lists are final
C3_Witness ==
    /\ pc = "top_done"
    /\ Len(gen_results) > TopK
    /\ gen_results[1].max_stage < gen_results[Len(gen_results)].max_stage
    /\ Len(top_lists["max_stage"]) = TopK

-----------------------------------------------------------------------------
(* SpecGen: BuildGenerator's random walks and extend_elite_pattern, one       *)
(* loop iteration per step                                                    *)

FiniteTalents == {t \in Talents : talent_max[t] # INF}

\* _random_walk_talent_allocation, lines 214-230: the talents one more click
\* can go to ('unknown_talent' is not in the table)
WalkValidTalents(result) ==
    LET all_normal_maxed ==
            \A t \in Talents :
                t \notin talent_requires_all_maxed /\ talent_max[t] # INF
                    => result[t] >= talent_max[t]
    IN {t \in Talents :
            /\ ~(talent_max[t] # INF /\ result[t] >= talent_max[t])
            /\ ~(t \in talent_requires_all_maxed /\ ~all_normal_maxed)}

\* faulty variant: point gates that never lock anything
always_unlocked(attr, current_allocation) == TRUE

\* _can_unlock_attribute: the points spent on the other attributes reach the
\* attribute's gate
can_unlock_attribute(attr, current_allocation) ==
    IF attr \notin DOMAIN attribute_point_gates THEN TRUE
    ELSE AttrSpent([current_allocation EXCEPT ![attr] = 0]) >= attribute_point_gates[attr]

\* `excluded`: the attribute shares an exclusion pair with an attribute that
\* has points
Excluded(attr, allocation) ==
    \E pair \in attribute_exclusions :
        /\ attr \in {pair[1], pair[2]}
        /\ allocation[IF pair[2] = attr THEN pair[1] ELSE pair[2]] > 0

DepsMet(attr, allocation) ==
    \A req \in attribute_dependencies[attr] : allocation[req[1]] >= req[2]

\* _random_walk_attr_allocation, lines 274-301: valid_attrs
WalkValidAttrs(result, remaining) ==
    {a \in Attrs :
        /\ ~(attr_costs[a] > remaining)
        /\ ~(attr_max[a] # INF /\ result[a] >= attr_max[a])
        /\ DepsMet(a, result)
        /\ can_unlock_attribute(a, result)
        /\ ~Excluded(a, result)}

\* faulty variant: an extension that does not look at what an attribute costs
ExtValidAttrsAnyCost(attrs, remaining) ==
    {a \in Attrs :
        /\ ~(attr_max[a] # INF /\ attrs[a] >= attr_max[a])
        /\ DepsMet(a, attrs)
        /\ can_unlock_attribute(a, attrs)
        /\ ~Excluded(a, attrs)}

\* extend_elite_pattern, lines 96-122: valid_attrs
ExtValidAttrs(attrs, remaining) ==
    {a \in Attrs :
        /\ ~(attr_costs[a] > remaining)
        /\ ~(attr_max[a] # INF /\ attrs[a] >= attr_max[a])
        /\ DepsMet(a, attrs)
        /\ can_unlock_attribute(a, attrs)
        /\ ~Excluded(a, attrs)}

\* extend_elite_pattern, lines 71-72: the talents that can take one more point
ExtValidTalents(talents) ==
    {t \in Talents : talent_max[t] = INF \/ talents[t] < talent_max[t]}

\* extend_elite_pattern, lines 60-61: the unlimited attributes, cheapest first
unlimited_attrs ==
    LET keyed == SortDesc([i \in 1..Len(AttrsList) |-> <<0 - attr_costs[AttrsList[i]], AttrsList[i]>>])
        names == [i \in 1..Len(keyed) |-> keyed[i][2]]
    IN SelectSeq(names, LAMBDA a : attr_max[a] = INF)

\* lines 129-138: the first unlimited attribute that is still affordable
FirstSink(remaining) ==
    LET ok == SelectSeq(unlimited_attrs, LAMBDA a : attr_costs[a] <= remaining)
    IN IF ok = <<>> THEN "none" ELSE Head(ok)

\* lines 142-148: the remaining points go to the unlimited attributes in order
RECURSIVE FinalDump(_, _, _)
FinalDump(sinks, attrs, remaining) ==
    IF sinks = <<>> THEN attrs
    ELSE LET a == Head(sinks)
             n == remaining \div attr_costs[a]
         IN FinalDump(Tail(sinks), [attrs EXCEPT ![a] = @ + n],
                      remaining - n * attr_costs[a])

\* lines 1330-1342: what the 30% mutation can turn the talents into
Mutations(talents) ==
    LET talent_keys == {t \in Talents : talents[t] > 0}
        picks == {p \in talent_keys \X Talents : p[1] # p[2]}
    IN IF Cardinality(talent_keys) < 2 THEN {talents}
       ELSE {IF talent_max[p[2]] = INF \/ talents[p[2]] < talent_max[p[2]]
             THEN [talents EXCEPT ![p[1]] = @ - 1, ![p[2]] = @ + 1]
             ELSE talents : p \in picks}


GenTiers == Tiers(GenLevel)

\* the generator's locals: the tier being built for and its budgets, the
\* allocation so far, the points left, and where the build stands (path says
\* whether it is a fresh walk, an extended elite or a mutated extended elite);
\* elite is the build extend_elite_pattern was given and returned the build it
\* gave back, before the caller's mutation
IdleGen ==
    [phase |-> "idle", tier |-> 0, talent_points |-> 0, attribute_points |-> 0,
     talents |-> NoTalents, attrs |-> NoAttrs, remaining |-> 0, stuck_count |-> 0,
     broke |-> FALSE, path |-> "none",
     elite |-> [talents |-> NoTalents, attrs |-> NoAttrs],
     returned |-> [talents |-> NoTalents, attrs |-> NoAttrs]]

Init_Gen ==
    /\ pc = "gen"
    /\ level = GenLevel
    /\ mode = "normal"
    /\ builds_per_gen = 1
    /\ generation = 0
    /\ batch_configs = <<>>
    /\ tested_builds = {}
    /\ results = <<>>
    /\ gen_results = <<>>
    /\ top_by = EmptyTops
    /\ top_lists = EmptyTops
    /\ generation_history = <<>>
    /\ total_sims = 0
    /\ tested = 0
    /\ next_id = 1
    /\ id_order = "asc"
    /\ progress_file = NoFile
    /\ result_file = "absent"
    /\ sh = IdleSH
    /\ stop_event = FALSE
    /\ observed = "nothing"
    /\ faults = 0
    /\ submitted = <<>>
    /\ hunter = NoHunter
    /\ gui = NoGui
    /\ effects = NoEffects
    /\ gen = IdleGen

\* generate_smart_sample(sample_size=1) is called for some tier: the talent
\* walk starts from zero with the tier's talent points
WalkStart ==
    /\ gen.phase \in {"idle", "emitted"}
    /\ \E k \in 1..Len(GenTiers) :
        gen' = [IdleGen EXCEPT !.phase = "talents", !.tier = k, !.path = "walk",
                   !.talent_points = TierTalentPoints(level, GenTiers[k]),
                   !.attribute_points = TierAttrPoints(level, GenTiers[k]),
                   !.remaining = TierTalentPoints(level, GenTiers[k])]
    /\ UNCHANGED <<pc, driver_vars>>

\* one iteration of the talent walk (lines 213-240)
WalkTalentStep ==
    /\ gen.phase = "talents"
    /\ gen.remaining > 0
    /\ \E chosen \in WalkValidTalents(gen.talents) :
        gen' = [gen EXCEPT !.talents[chosen] = @ + 1, !.remaining = @ - 1]
    /\ UNCHANGED <<pc, driver_vars>>

\* the talent walk returns (no points or no valid talent left); the
\* attribute walk starts with the tier's attribute points
WalkTalentsDone ==
    /\ gen.phase = "talents"
    /\ gen.remaining = 0 \/ WalkValidTalents(gen.talents) = {}
    /\ gen' = [gen EXCEPT !.phase = "attrs", !.remaining = gen.attribute_points,
                          !.stuck_count = 0, !.broke = FALSE]
    /\ UNCHANGED <<pc, driver_vars>>

\* lines 306-311: the stuck fallback clicks attributes that cost no more than
\* what was left when it started, until nothing is left; extra[a] is the
\* number of clicks a got, the last click being the one that used up the rest
StuckDumps(result, remaining) ==
    LET cands == {a \in Attrs : attr_costs[a] <= remaining}
        Spent(extra) == AttrSpent([a \in Attrs |-> IF a \in cands THEN extra[a] ELSE 0])
    IN IF cands = {} THEN {<<result, remaining>>}
       ELSE {<<[a \in Attrs |-> result[a] + (IF a \in cands THEN extra[a] ELSE 0)],
               remaining - Spent(extra)>> :
                extra \in {e \in [cands -> 0..remaining] :
                              /\ Spent(e) >= remaining
                              /\ \E a \in cands :
                                    e[a] > 0 /\ Spent(e) - attr_costs[a] < remaining}}

\* one iteration of the attribute walk (lines 272-318)
WalkAttrStep ==
    /\ gen.phase = "attrs"
    /\ gen.remaining > 0
    /\ ~gen.broke
    /\ LET valid_attrs == WalkValidAttrs(gen.attrs, gen.remaining)
       IN IF valid_attrs = {}
          THEN IF gen.stuck_count + 1 >= 3
               THEN \E d \in StuckDumps(gen.attrs, gen.remaining) :
                       gen' = [gen EXCEPT !.attrs = d[1], !.remaining = d[2],
                                          !.stuck_count = @ + 1, !.broke = TRUE]
               ELSE gen' = [gen EXCEPT !.stuck_count = @ + 1]
          ELSE \E chosen \in valid_attrs :
                  gen' = [gen EXCEPT !.attrs[chosen] = @ + 1,
                                     !.remaining = @ - attr_costs[chosen],
                                     !.stuck_count = 0]
    /\ UNCHANGED <<pc, driver_vars>>

\* lines 320-324: the walk returns its allocation, or all zeros when it
\* spent more than the budget; the build is emitted
WalkEmit ==
    /\ gen.phase = "attrs"
    /\ gen.remaining <= 0 \/ gen.broke
    /\ gen' = [gen EXCEPT !.phase = "emitted",
                          !.attrs = IF AttrSpent(gen.attrs) > gen.attribute_points
                                    THEN NoAttrs ELSE gen.attrs,
                          !.remaining = 0, !.stuck_count = 0, !.broke = FALSE]
    /\ UNCHANGED <<pc, driver_vars>>


\* faulty variant: an extension that starts from an empty build
DropElite(d, names) == [k \in Range(names) |-> 0]

\* lines 44-45: {t: elite_talents.get(t, 0) for t in talents_list}
CopyElite(d, names) == [k \in Range(names) |-> IF k \in DOMAIN d THEN d[k] ELSE 0]

\* lines 1317-1325: a result of the previous tier is promoted and
\* extend_elite_pattern starts adding the talent points the new tier has on
\* top of what the elite spent (lines 49-56)
ExtStart ==
    /\ gen.phase = "emitted"
    /\ gen.tier < Len(GenTiers)
    /\ LET target_talents == TierTalentPoints(level, GenTiers[gen.tier + 1])
           target_attrs == TierAttrPoints(level, GenTiers[gen.tier + 1])
           talents == CopyElite(gen.talents, TalentsList)
           attrs == CopyElite(gen.attrs, AttrsList)
       IN gen' = [gen EXCEPT !.phase = "ext_talents", !.tier = @ + 1, !.path = "extend",
                             !.talent_points = target_talents,
                             !.attribute_points = target_attrs,
                             !.talents = talents, !.attrs = attrs,
                             !.elite = [talents |-> gen.talents, attrs |-> gen.attrs],
                             !.remaining = Max(0, target_talents - TalentSpent(talents)),
                             !.stuck_count = 0, !.broke = FALSE]
    /\ UNCHANGED <<pc, driver_vars>>

\* one iteration of the talent loop of extend_elite_pattern (lines 67-83)
ExtTalentStep ==
    /\ gen.phase = "ext_talents"
    /\ gen.remaining > 0
    /\ \E chosen \in ExtValidTalents(gen.talents) :
        gen' = [gen EXCEPT !.talents[chosen] = @ + 1, !.remaining = @ - 1]
    /\ UNCHANGED <<pc, driver_vars>>

\* the talent loop ends; the attribute loop starts with attr_to_add
ExtTalentsDone ==
    /\ gen.phase = "ext_talents"
    /\ gen.remaining = 0 \/ ExtValidTalents(gen.talents) = {}
    /\ gen' = [gen EXCEPT !.phase = "ext_attrs",
                          !.remaining = Max(0, gen.attribute_points - AttrSpent(gen.attrs))]
    /\ UNCHANGED <<pc, driver_vars>>

\* one iteration of the attribute loop of extend_elite_pattern (lines 92-140)
ExtAttrStep ==
    /\ gen.phase = "ext_attrs"
    /\ gen.remaining > 0
    /\ ~gen.broke
    /\ LET valid_attrs == ExtValidAttrs(gen.attrs, gen.remaining)
           sink_attr == FirstSink(gen.remaining)
       IN IF valid_attrs # {}
          THEN \E chosen \in valid_attrs :
                  gen' = [gen EXCEPT !.attrs[chosen] = @ + 1,
                                     !.remaining = @ - attr_costs[chosen]]
          ELSE IF sink_attr # "none"
               THEN gen' = [gen EXCEPT !.attrs[sink_attr] = @ + 1,
                                       !.remaining = @ - attr_costs[sink_attr]]
               ELSE gen' = [gen EXCEPT !.broke = TRUE]
    /\ UNCHANGED <<pc, driver_vars>>

\* lines 142-150 and 1327-1342: the rest is dumped into the unlimited
\* attributes, extend_elite_pattern returns, and the caller mutates the
\* talents three times out of ten; the build is emitted
ExtDone ==
    /\ gen.phase = "ext_attrs"
    /\ gen.remaining <= 0 \/ gen.broke
    /\ LET attrs == IF gen.remaining > 0 /\ unlimited_attrs # <<>>
                    THEN FinalDump(unlimited_attrs, gen.attrs, gen.remaining)
                    ELSE gen.attrs
           returned == [talents |-> gen.talents, attrs |-> attrs]
       IN \/ gen' = [gen EXCEPT !.phase = "emitted", !.attrs = attrs,
                                !.returned = returned,
                                !.remaining = 0, !.broke = FALSE]
          \/ \E mutated \in Mutations(gen.talents) :
                gen' = [gen EXCEPT !.phase = "emitted", !.attrs = attrs,
                                   !.returned = returned,
                                   !.talents = mutated, !.path = "mutated",
                                   !.remaining = 0, !.broke = FALSE]
    /\ UNCHANGED <<pc, driver_vars>>

Next_Gen ==
    \/ WalkStart
    \/ WalkTalentStep
    \/ WalkTalentsDone
    \/ WalkAttrStep
    \/ WalkEmit
    \/ ExtStart
    \/ ExtTalentStep
    \/ ExtTalentsDone
    \/ ExtAttrStep
    \/ ExtDone

SpecGen == Init_Gen /\ [][Next_Gen]_vars

\* the other talents with a finite maximum are all at their maximum
OthersMaxed(talents) ==
    \A t \in FiniteTalents \ {"legacy_of_ultima"} : talents[t] >= talent_max[t]

\* C6: a build that has points in legacy_of_ultima has every other talent
\* with a finite maximum at its maximum, whether it comes from the random
\* walk, from an extended elite or from a mutated elite
C6_LegacyOnlyWhenOthersMaxed ==
    gen.phase = "emitted" /\ gen.talents["legacy_of_ultima"] > 0
        => OthersMaxed(gen.talents)

\* C7: a build that is emitted spends no more talent points than the level
\* and no more attribute points (level times cost) than three times the level
C7_WithinBudget ==
    gen.phase = "emitted"
        => /\ TalentSpent(gen.talents) <= level
           /\ AttrSpent(gen.attrs) <= 3 * level

\* an extended elite of the last tier has spent the whole of both budgets
C7_Witness ==
    /\ gen.phase = "emitted"
    /\ gen.path = "extend"
    /\ TalentSpent(gen.talents) = level
    /\ AttrSpent(gen.attrs) = 3 * level

\* C8: in a build that is emitted, every attribute with points has its
\* prerequisites at the required levels and at least its gate spent on the
\* other attributes
C8_UnlocksRespected ==
    gen.phase = "emitted"
        => \A a \in Attrs :
              gen.attrs[a] > 0
                  => /\ DepsMet(a, gen.attrs)
                     /\ a \in GatedAttrs =>
                           AttrSpent([gen.attrs EXCEPT ![a] = 0]) >= attribute_point_gates[a]

\* an extended elite that holds both the gated attribute and the one with a
\* prerequisite
C8_Witness ==
    /\ gen.phase = "emitted"
    /\ gen.path = "extend"
    /\ gen.attrs["gift_of_medusa"] > 0
    /\ gen.attrs["wings_of_ibu"] > 0


-----------------------------------------------------------------------------
(* The same optimizer on the longer curricula: three tiers (levels 21..40) *)
(* and six tiers (levels above 40)                                          *)

Init_Long ==
    /\ pc = "legacy"
    /\ level \in {ThreeTierLevel, SixTierLevel}
    /\ mode \in Modes
    /\ builds_per_gen \in 1..(IF level = ThreeTierLevel THEN MaxTierBuilds ELSE 1)
    /\ generation = 0
    /\ batch_configs = <<>>
    /\ tested_builds = {}
    /\ results = <<>>
    /\ gen_results = <<>>
    /\ top_by = EmptyTops
    /\ top_lists = EmptyTops
    /\ generation_history = <<>>
    /\ total_sims = 0
    /\ tested = 0
    /\ next_id = 1
    /\ id_order = "asc"
    /\ progress_file = NoFile
    /\ result_file = "absent"
    /\ sh = IdleSH
    /\ stop_event = FALSE
    /\ observed = "nothing"
    /\ faults = 0
    /\ submitted = <<>>
    /\ hunter = NoHunter
    /\ gui = NoGui
    /\ effects = NoEffects
    /\ gen = <<>>

\* the optimizer subprocess alone: the GUI neither polls nor stops
Next_Long ==
    \/ Legacy \/ InitOpen \/ InitDump \/ TierStart \/ PreSH \/ SHRound \/ SHFinal
    \/ Process \/ BatchOpen \/ BatchDump \/ History \/ GenOpen \/ GenDump
    \/ Finalize \/ Except

SpecLong == Init_Long /\ [][Next_Long]_vars

\* the results a tier before its start could take its elites from: those of
\* the tier that has just ended
OfPrecedingTier(r) == r.tier = Tiers(level)[generation]

\* C11: in every tier after the first the promoted elites come only from the
\* results of the immediately preceding tier, are the highest-ranked of those
\* by max_stage, and are at most max(100, 10% of builds_per_tier)
C11_ElitesFromPrecedingTier ==
    pc = "tier" /\ generation >= 1 /\ generation < Len(Tiers(level)) /\ results # <<>>
        => LET top_builds == TopBuilds(results, builds_per_gen)
           IN /\ Len(top_builds) <= Max(100, (builds_per_gen * 10) \div 100)
              /\ \A i \in 1..Len(top_builds) :
                    /\ OfPrecedingTier(top_builds[i])
                    /\ \A j \in 1..Len(results) :
                          OfPrecedingTier(results[j])
                          /\ results[j] \notin Range(top_builds)
                              => results[j].max_stage <= top_builds[i].max_stage


C13_ExtensionOnlyAdds ==
    gen.phase = "emitted" /\ gen.path \in {"extend", "mutated"}
        => /\ \A t \in Talents : gen.returned.talents[t] >= gen.elite.talents[t]
           /\ \A a \in Attrs : gen.returned.attrs[a] >= gen.elite.attrs[a]

\* an elite with points in several talents and attributes was extended and
\* the build returned holds more points than the elite did
C13_Witness ==
    /\ gen.phase = "emitted"
    /\ gen.path = "extend"
    /\ Cardinality({t \in Talents : gen.elite.talents[t] > 0}) >= 2
    /\ Cardinality({a \in Attrs : gen.elite.attrs[a] > 0}) >= 2
    /\ TalentSpent(gen.returned.talents) > TalentSpent(gen.elite.talents)
    /\ AttrSpent(gen.returned.attrs) > AttrSpent(gen.elite.attrs)


-----------------------------------------------------------------------------
(* One call of evaluate_builds_successive_halving on the first tier's      *)
(* batch, with simulation outcomes that lie far apart                      *)

\* what a simulation can report here: next to SimOutcomes, a build that
\* reaches the loot cap and builds that reach few stages or earn no loot
WideOutcomes ==
    SimOutcomes \cup
    { [avg_stage |-> 40, max_stage |-> 44, avg_loot_per_hour |-> 10,
       avg_damage |-> 6, avg_xp |-> 3],
      [avg_stage |-> 38, max_stage |-> 40, avg_loot_per_hour |-> 0,
       avg_damage |-> 4, avg_xp |-> 2] }

\* the state in which the first tier of a run with MaxBuilds builds per tier
\* has just called successive halving (after PreSH)
Init_SH ==
    /\ pc = "sh_round"
    /\ level = MaxLevel - 1
    /\ mode \in Modes
    /\ builds_per_gen = MaxBuilds
    /\ generation = 1
    /\ batch_configs \in
          {SampleOrder(S) : S \in {T \in SUBSET SampleBuilds(
                                        TierTalentPoints(level, Tiers(level)[1]),
                                        TierAttrPoints(level, Tiers(level)[1])) :
                                     Cardinality(T) = MaxBuilds}}
    /\ tested_builds = KeysOf(batch_configs)
    /\ results = <<>>
    /\ gen_results = <<>>
    /\ top_by = EmptyTops
    /\ top_lists = EmptyTops
    /\ generation_history = <<>>
    /\ total_sims = 0
    /\ tested = 0
    /\ next_id = 1
    /\ id_order = "asc"
    /\ progress_file = Record(1, NoProgressKey)
    /\ result_file = "error"
    /\ sh = [IdleSH EXCEPT !.surviving_configs = batch_configs,
                           !.current_sims = ModeParams(mode).base_sims,
                           !.rounds = ModeParams(mode).rounds,
                           !.num = ModeParams(mode).num,
                           !.den = ModeParams(mode).den]
    /\ stop_event = FALSE
    /\ observed = "nothing"
    /\ faults = 0
    /\ submitted = [i \in 1..Len(batch_configs) |-> build_key(batch_configs[i])]
    /\ hunter = NoHunter
    /\ gui = NoGui
    /\ effects = NoEffects
    /\ gen = <<>>

\* lines 235-424: one round of the call
SHRoundWide ==
    /\ pc = "sh_round"
    /\ sh.round_num < sh.rounds
    /\ Len(sh.surviving_configs) > 1
    /\ \E noise \in [1..CacheHits(sh) -> NoiseChoices],
          outs \in [1..(Len(sh.surviving_configs) - CacheHits(sh)) -> WideOutcomes] :
          sh' = SHRoundBody(sh, noise, outs)
    /\ UNCHANGED <<pc, gui, effects, hunter, submitted, level, mode, builds_per_gen, generation, batch_configs,
                   tested_builds, results, gen_results, top_by, top_lists,
                   generation_history, total_sims, tested, next_id, id_order,
                   progress_file, result_file, stop_event, observed, faults, gen>>

\* lines 236-238 and 426-478: the final evaluation and the return
SHFinalWide ==
    /\ pc = "sh_round"
    /\ sh.round_num >= sh.rounds \/ Len(sh.surviving_configs) <= 1
    /\ \E outs \in [1..Len(sh.surviving_configs) -> WideOutcomes] :
          sh' = SHFinalBody(sh, outs)
    /\ pc' = "process"
    /\ UNCHANGED <<gui, effects, hunter, submitted, level, mode, builds_per_gen, generation, batch_configs,
                   tested_builds, results, gen_results, top_by, top_lists,
                   generation_history, total_sims, tested, next_id, id_order,
                   progress_file, result_file, stop_event, observed, faults, gen>>

Next_SH == SHRoundWide \/ SHFinalWide

SpecSH == Init_SH /\ [][Next_SH]_vars

\* the composite score a candidate gets from the cache with some noise
\* beats 0.3 x best (scores are kept times 10)
CachedScoreBeats(l, config, best) ==
    \E noise \in NoiseChoices :
        10 * Score10(CachedResult(CacheGet(l.similarity_cache, similarity_key(config)),
                                  noise)) > 3 * best

\* C15: in the rounds past round 2 a candidate served from the similarity
\* cache is among the round's survivors only if its composite score beats
\* 0.3 x best_score_so_far
C15_CachedKeptOnlyAboveThreshold ==
    [][sh.round_num >= 2 /\ sh'.round_num = sh.round_num + 1
        => \A i \in 1..Len(sh'.surviving_configs) :
              InCache(sh.similarity_cache, similarity_key(sh'.surviving_configs[i]))
                  => CachedScoreBeats(sh, sh'.surviving_configs[i],
                                      sh.best_score_so_far)]_vars


-----------------------------------------------------------------------------
(***************************************************************************)
(* One simulation run of one hunter: hunters.py (Hunter, Borge, Ozzy,       *)
(* Knox) driven by the event loop of the simulation.  Hit points are small  *)
(* integers; a revive restores 80% of max_hp as in Hunter.on_death.         *)
(***************************************************************************)

StageCap == 3        \* Hunter.max_stage of the modelled run (210 / irl_max_stage)
MaxHp == 5           \* Hunter.max_hp of the modelled run
MaxCompanion == 2    \* "death_is_my_companion" max
MaxSisters == 1      \* "blessings_of_the_sisters" max

HunterKinds == {"Borge", "Ozzy", "Knox"}

\* hunters.py 673: Hunter.is_dead
is_dead(h) == h.hp <= 0

\* faulty variant: a heal that adds its whole value
heal_hp_unclamped(h, value) == [h EXCEPT !.hp = h.hp + value]

\* hunters.py 277: Hunter.heal_hp, capped at max_hp
heal_hp(h, value) ==
    [h EXCEPT !.hp = IF h.hp + value > h.max_hp THEN h.max_hp ELSE h.hp + value]

\* hunters.py 561-572: Hunter.complete_stage (Knox.complete_stage, 2613-2621,
\* calls it and then only touches hundred_souls)
complete_stage(h) ==
    LET cs == h.current_stage + 1 IN
    IF cs >= h.max_stage
    THEN [h EXCEPT !.current_stage = cs,
                   !.hp = 0,
                   !.times_revived = h.death_is_my_companion]
    ELSE [h EXCEPT !.current_stage = cs]

\* the revive both on_death bodies perform
Revive(h) ==
    [h EXCEPT !.hp = (4 * h.max_hp) \div 5,
              !.revive_log = Append(h.revive_log, h.current_stage),
              !.times_revived = h.times_revived + 1]

\* faulty variant: a revive on every death
on_death_unguarded(h) == Revive(h)

\* hunters.py 681-691: Hunter.on_death (Borge and Knox inherit it)
Hunter_on_death(h) ==
    IF h.times_revived < h.death_is_my_companion THEN Revive(h) ELSE h

\* hunters.py 2015-2027: Ozzy.on_death
total_revives(h) == h.death_is_my_companion + h.blessings_of_the_sisters

Ozzy_on_death(h) ==
    IF h.times_revived < total_revives(h) THEN Revive(h) ELSE h

on_death(h) == IF h.kind = "Ozzy" THEN Ozzy_on_death(h) ELSE Hunter_on_death(h)

\* hunters.py 273-274, 2012-2013, 2593-2594: the end of every receive_damage
receive_damage(h, damage) ==
    LET hit == [h EXCEPT !.hp = h.hp - damage] IN
    IF is_dead(hit) THEN on_death(hit) ELSE hit

\* heapq order of the events (time, priority, action)
EventBefore(a, b) == a[1] < b[1] \/ (a[1] = b[1] /\ a[2] < b[2])

\* hunters.py 4: heappush as hpush; the queue is kept as the sorted list hpop
\* would deliver
hpush(q, e) ==
    LET k == Cardinality({i \in 1..Len(q) : ~EventBefore(e, q[i])})
    IN  SubSeq(q, 1, k) \o <<e>> \o SubSeq(q, k + 1, Len(q))

\* faulty variant: every attack is handled as a normal attack
always_normal_attack(attack_queue) == TRUE

\* hunters.py 1883: "if not self.attack_queue" selects the normal attack
is_normal_attack(attack_queue) == attack_queue = <<>>

\* hunters.py 1876-1957: Ozzy.attack; ms, stun and echo are the outcomes of
\* the three random draws of a normal attack, steal the lifesteal
Ozzy_attack(h, ms, stun, echo, steal) ==
    LET q1 == IF ms THEN hpush(h.queue, <<0, 1, "hunter_special">>) ELSE h.queue
        q2 == IF stun THEN hpush(q1, <<0, 0, "stun">>) ELSE q1
        q3 == IF echo THEN hpush(q2, <<0, 2, "hunter_special">>) ELSE q2
        aq == h.attack_queue \o (IF ms THEN <<"(MS)">> ELSE <<>>)
                             \o (IF echo THEN <<"(ECHO)">> ELSE <<>>)
    IN  IF is_normal_attack(h.attack_queue)
        THEN heal_hp([h EXCEPT !.attack_queue = aq, !.queue = q3], steal)
        ELSE heal_hp([h EXCEPT !.attack_queue = Tail(h.attack_queue)], steal)

\* hunters.py 1205-1230 (Borge.attack, which may push a stun) and Knox.attack:
\* no attack_queue
Plain_attack(h, stun, steal) ==
    heal_hp(IF stun /\ h.kind = "Borge"
            THEN [h EXCEPT !.queue = hpush(h.queue, <<0, 0, "stun">>)]
            ELSE h, steal)

attack(h, ms, stun, echo, steal) ==
    IF h.kind = "Ozzy" THEN Ozzy_attack(h, ms, stun, echo, steal)
    ELSE Plain_attack(h, stun, steal)

\* Hunter.__init__ (23-40, 163-165) and Ozzy.__init__ (1616) for a build with
\* the given revive talent and attribute
NewHunter(kind, companion, sisters) ==
    [kind |-> kind,
     death_is_my_companion |-> companion,
     blessings_of_the_sisters |-> sisters,
     max_hp |-> MaxHp,
     hp |-> MaxHp,
     max_stage |-> StageCap,
     current_stage |-> 0,
     times_revived |-> 0,
     revive_log |-> <<>>,
     attack_queue |-> <<>>,
     queue |-> <<>>,
     handled |-> "none"]

Init_Run ==
    /\ pc = "run"
    /\ level = MaxLevel
    /\ mode = "normal"
    /\ builds_per_gen = 1
    /\ generation = 0
    /\ batch_configs = <<>>
    /\ tested_builds = {}
    /\ results = <<>>
    /\ gen_results = <<>>
    /\ top_by = EmptyTops
    /\ top_lists = EmptyTops
    /\ generation_history = <<>>
    /\ total_sims = 0
    /\ tested = 0
    /\ next_id = 1
    /\ id_order = "asc"
    /\ progress_file = NoFile
    /\ result_file = "absent"
    /\ sh = IdleSH
    /\ stop_event = FALSE
    /\ observed = "nothing"
    /\ faults = 0
    /\ submitted = <<>>
    /\ gen = IdleGen
    /\ \E kind \in HunterKinds, companion \in 0..MaxCompanion, sisters \in 0..MaxSisters :
          /\ sisters > 0 => kind = "Ozzy"
          /\ hunter = NewHunter(kind, companion, sisters)
    /\ gui = NoGui
    /\ effects = NoEffects

run_frame == <<pc, level, mode, builds_per_gen, generation, batch_configs, tested_builds,
               results, gen_results, top_by, top_lists, generation_history,
               total_sims, tested, next_id, id_order, progress_file, result_file,
               sh, stop_event, observed, faults, submitted, gen, gui, effects>>

\* the loop runs while the hunter lives
HunterAlive == pc = "run" /\ ~is_dead(hunter)

\* after an attack the enemy may be dead and the stage complete
AfterAttack(h, cleared) == IF cleared THEN complete_stage(h) ELSE h

\* event 'hunter': the timed main attack; events pushed at time 0 go first
SimHunter ==
    /\ HunterAlive
    /\ hunter.queue = <<>>
    /\ \E ms, stun, echo, cleared \in BOOLEAN, steal \in 0..1 :
          hunter' = [AfterAttack(attack(hunter, ms, stun, echo, steal), cleared)
                        EXCEPT !.handled = "hunter"]
    /\ UNCHANGED run_frame

\* event 'hunter_special': hunter.attack(enemy) once more
SimHunterSpecial ==
    /\ HunterAlive
    /\ hunter.queue # <<>>
    /\ Head(hunter.queue)[3] = "hunter_special"
    /\ \E ms, stun, echo, cleared \in BOOLEAN, steal \in 0..1 :
          hunter' = [AfterAttack(attack([hunter EXCEPT !.queue = Tail(hunter.queue)],
                                        ms, stun, echo, steal), cleared)
                        EXCEPT !.handled = "hunter_special"]
    /\ UNCHANGED run_frame

\* event 'stun': Hunter.apply_stun acts on the enemy only
SimStun ==
    /\ HunterAlive
    /\ hunter.queue # <<>>
    /\ Head(hunter.queue)[3] = "stun"
    /\ hunter' = [hunter EXCEPT !.queue = Tail(hunter.queue), !.handled = "stun"]
    /\ UNCHANGED run_frame

\* event 'enemy': the enemy's timed attack lands
SimEnemy ==
    /\ HunterAlive
    /\ hunter.queue = <<>>
    /\ \E damage \in 1..MaxHp :
          hunter' = [receive_damage(hunter, damage) EXCEPT !.handled = "enemy"]
    /\ UNCHANGED run_frame

Next_Run == SimHunter \/ SimHunterSpecial \/ SimStun \/ SimEnemy

SpecRun == Init_Run /\ [][Next_Run]_vars


\* C16: once complete_stage has brought current_stage to max_stage the hunter
\* is dead (hp = 0) and cannot be revived any more: times_revived is not
\* below the hunter's total revives and on_death leaves the hunter dead,
\* whichever kind of hunter it is.
C16_CapSuppressesRevive ==
    (pc = "run" /\ hunter.current_stage >= hunter.max_stage)
        => /\ hunter.hp = 0
           /\ hunter.times_revived >= total_revives(hunter)
           /\ is_dead(on_death(hunter))


\* the revives a build grants: death_is_my_companion, plus
\* blessings_of_the_sisters for Ozzy only
RevivesGranted(h) ==
    h.death_is_my_companion + (IF h.kind = "Ozzy" THEN h.blessings_of_the_sisters ELSE 0)

\* C17: the revives a run has used, i.e. the entries of its revive log, never
\* exceed death_is_my_companion + blessings_of_the_sisters (the latter for
\* Ozzy only).
C17_ReviveBound ==
    pc = "run" => Len(hunter.revive_log) <= RevivesGranted(hunter)

\* an Ozzy with both sources of revives has used all three and is dead
C17_Witness ==
    /\ pc = "run"
    /\ hunter.kind = "Ozzy"
    /\ hunter.blessings_of_the_sisters = 1
    /\ Len(hunter.revive_log) = MaxCompanion + 1
    /\ is_dead(hunter)
    /\ hunter.current_stage < hunter.max_stage


\* the hunter_special events waiting in the simulation queue
Specials(q) == Cardinality({i \in 1..Len(q) : q[i][3] = "hunter_special"})

\* C20: when Ozzy handles a hunter_special event, i.e. a queued "(MS)" or
\* "(ECHO)" follow-up, the attack takes one entry off attack_queue, appends
\* none and schedules no hunter_special event; the number of waiting
\* hunter_special events grows only in a step that dispatches the timed
\* main attack with an empty attack_queue.
C20_FollowUpNeverChains ==
    [][(pc = "run" /\ hunter.kind = "Ozzy")
        => /\ (hunter.queue # <<>> /\ Head(hunter.queue)[3] = "hunter_special")
                => /\ hunter.attack_queue # <<>>
                   /\ hunter'.attack_queue = Tail(hunter.attack_queue)
                   /\ Specials(hunter'.queue) = Specials(hunter.queue) - 1
           /\ (Specials(hunter'.queue) > Specials(hunter.queue)
                \/ Len(hunter'.attack_queue) > Len(hunter.attack_queue))
                => /\ hunter.queue = <<>>
                   /\ hunter.attack_queue = <<>>
                   /\ hunter'.handled = "hunter"]_vars

\* a main attack queued both follow-ups, "(MS)" has been handled and "(ECHO)"
\* is the one left
C20_Witness ==
    /\ pc = "run"
    /\ hunter.kind = "Ozzy"
    /\ hunter.handled = "hunter_special"
    /\ hunter.attack_queue = <<"(ECHO)">>
    /\ hunter.queue = <<<<0, 2, "hunter_special">>>>


\* C18: when a progressive run has written its result with status
\* "complete", generation_history holds exactly one record per tier, in tier
\* order (six records for a six-tier run).
C18_OneRecordPerTier ==
    result_file = "complete"
        => /\ Len(generation_history) = Len(Tiers(level))
           /\ \A i \in 1..Len(generation_history) :
                 /\ generation_history[i].generation = i
                 /\ generation_history[i].talent_points
                        = TierTalentPoints(level, Tiers(level)[i])
                 /\ generation_history[i].attribute_points
                        = TierAttrPoints(level, Tiers(level)[i])

\* a six-tier run has finished with its six records
C18_Witness ==
    /\ result_file = "complete"
    /\ Len(Tiers(level)) = 6
    /\ Len(generation_history) = 6


-----------------------------------------------------------------------------
(* SpecReport: the end of a run, from the final tier's results to the       *)
(* 'best_build' entry of the final report                                   *)

MaxReport == 4       \* results of the final tier

\* what the final simulations can report here: next to SimOutcomes, a build
\* with the highest max_stage whose average stage is not the highest
ReportOutcomes ==
    SimOutcomes \cup
    { [avg_stage |-> 38, max_stage |-> 44, avg_loot_per_hour |-> 3,
       avg_damage |-> 4, avg_xp |-> 2] }

\* the candidates of the final tier
ReportConfig(w) ==
    [talents |-> FirstValidTalents(1, MaxLevel, NoTalents),
     attributes |-> WingsAttrs(w, 3 * MaxLevel)]

\* lines 1703-1725: best_max, best_avg and the 'best_build' entry of final_data
best_build(tops) ==
    LET top_by_max_stage == tops["max_stage"]
        top_by_avg_stage == tops["avg_stage"]
        has_max == top_by_max_stage # <<>>
        has_avg == top_by_avg_stage # <<>>
    IN [max_stage |-> IF has_max THEN top_by_max_stage[1].max_stage ELSE 0,
        avg_stage |-> IF has_avg THEN top_by_avg_stage[1].avg_stage ELSE 0,
        avg_loot_per_hour |-> IF has_max THEN top_by_max_stage[1].avg_loot_per_hour ELSE 0,
        avg_damage |-> IF has_max THEN top_by_max_stage[1].avg_damage ELSE 0,
        avg_xp |-> IF has_max THEN top_by_max_stage[1].avg_xp ELSE 0,
        talents |-> IF has_max THEN top_by_max_stage[1].talents ELSE NoTalents,
        attributes |-> IF has_max THEN top_by_max_stage[1].attributes ELSE NoAttrs]

Init_Report ==
    /\ pc = "report_push"
    /\ level = MaxLevel
    /\ mode = "normal"
    /\ builds_per_gen = MaxReport
    /\ generation = Len(Tiers(MaxLevel))
    /\ batch_configs = <<>>
    /\ tested_builds = {}
    /\ results = <<>>
    /\ gen_results = <<>>
    /\ top_by = EmptyTops
    /\ top_lists = EmptyTops
    /\ generation_history = <<>>
    /\ total_sims = 0
    /\ tested = 0
    /\ next_id = 1
    /\ id_order \in {"asc", "desc"}
    /\ progress_file = NoFile
    /\ result_file = "absent"
    /\ sh = IdleSH
    /\ stop_event = FALSE
    /\ observed = "nothing"
    /\ faults = 0
    /\ submitted = <<>>
    /\ hunter = NoHunter
    /\ gui = NoGui
    /\ effects = NoEffects
    /\ gen = IdleGen

\* lines 1582-1599 for the next result of the final tier
ReportPush ==
    /\ pc = "report_push"
    /\ Len(gen_results) < MaxReport
    /\ \E o \in ReportOutcomes :
        LET config == ReportConfig(Len(gen_results))
            final_results == <<<<config, SimResult(config, o, 512)>>>>
            brs == BuildResults(final_results, next_id, id_order, 100)
        IN /\ gen_results' = gen_results \o brs
           /\ top_by' = PushAll(top_by, brs)
           /\ tested_builds' = tested_builds \cup {build_key(config)}
           /\ submitted' = Append(submitted, build_key(config))
    /\ next_id' = next_id + 1
    /\ UNCHANGED <<pc, gui, effects, hunter, level, mode, builds_per_gen, generation, batch_configs,
                   results, top_lists, generation_history, total_sims,
                   tested, id_order, progress_file, result_file, sh, stop_event,
                   observed, faults, gen>>

\* lines 1695-1745: finalize_top_lists() and the final report
ReportWrite ==
    /\ pc = "report_push"
    /\ gen_results # <<>>
    /\ top_lists' = finalize_top_lists(top_by)
    /\ results' = gen_results
    /\ result_file' = "complete"
    /\ pc' = "done"
    /\ UNCHANGED <<gui, effects, hunter, submitted, level, mode, builds_per_gen, generation, batch_configs, tested_builds,
                   gen_results, top_by, generation_history, total_sims, tested,
                   next_id, id_order, progress_file, sh, stop_event,
                   observed, faults, gen>>

Next_Report == ReportPush \/ ReportWrite

SpecReport == Init_Report /\ [][Next_Report]_vars

\* C19: best_build of the final report is the first entry of
\* top_10_by_max_stage: its max_stage, avg_stage, loot, damage, xp, talents
\* and attributes are all that entry's.
C19_BestBuildIsOneBuild ==
    (result_file = "complete" /\ top_lists["max_stage"] # <<>>)
        => LET first == top_lists["max_stage"][1]
               best == best_build(top_lists)
           IN /\ best.max_stage = first.max_stage
              /\ best.avg_stage = first.avg_stage
              /\ best.avg_loot_per_hour = first.avg_loot_per_hour
              /\ best.avg_damage = first.avg_damage
              /\ best.avg_xp = first.avg_xp
              /\ best.talents = first.talents
              /\ best.attributes = first.attributes


-----------------------------------------------------------------------------
(* SpecTrample: Borge's attacks on the enemies of a stage, with and without *)
(* the trample mod                                                          *)

MaxDamage == 22          \* largest damage of one attack
MaxEnemyHp == 2          \* largest Enemy.max_hp
StageEnemies == 10       \* enemies of a regular stage (a boss stage has 1)

\* every variable but pc, hunter and gui, in a state where no optimization runs
IdleDriver ==
    /\ level = MaxLevel
    /\ mode = "normal"
    /\ builds_per_gen = 1
    /\ generation = 0
    /\ batch_configs = <<>>
    /\ tested_builds = {}
    /\ results = <<>>
    /\ gen_results = <<>>
    /\ top_by = EmptyTops
    /\ top_lists = EmptyTops
    /\ generation_history = <<>>
    /\ total_sims = 0
    /\ tested = 0
    /\ next_id = 1
    /\ id_order = "asc"
    /\ progress_file = NoFile
    /\ result_file = "absent"
    /\ sh = IdleSH
    /\ stop_event = FALSE
    /\ observed = "nothing"
    /\ faults = 0
    /\ submitted = <<>>
    /\ gen = IdleGen
    /\ effects = NoEffects

\* hunters.py 1203: the condition under which Borge.attack calls apply_trample
trample_applies(trample, boss, damage, max_hp) ==
    trample /\ ~boss /\ damage > max_hp

\* faulty variant: a trample that counts a kill for every point of
\* trample_power, whether or not that many enemies are left
apply_trample_uncounted(damage, others, max_hp) ==
    IF others = 0 THEN 0 ELSE 1 + Min(damage \div max_hp, 10)

\* hunters.py 1313-1338: Borge.apply_trample; others is the number of living
\* enemies in sim.enemies (the current target is not among them), all with
\* the stage's max_hp.  The result is trample_kills.
apply_trample(damage, others, max_hp) ==
    IF others = 0 THEN 0
    ELSE LET trample_power == Min(damage \div max_hp, 10)
         IN IF trample_power > 1 THEN 1 + Min(trample_power, others) ELSE 0

\* the stage a Borge faces: the target (Enemy or Boss), the other living
\* enemies of the stage, and what the last attack did
NewStage(trample, boss, max_hp) ==
    [kind |-> "Borge", trample |-> trample, boss |-> boss, max_hp |-> max_hp,
     target_hp |-> max_hp,
     others |-> IF boss THEN 0 ELSE StageEnemies - 1,
     last |-> [damage |-> 0, boss |-> FALSE, max_hp |-> 0, kills |-> 0,
               chained |-> FALSE]]

Init_Trample ==
    /\ pc = "trample"
    /\ IdleDriver
    /\ gui = NoGui
    /\ \E trample, boss \in BOOLEAN, max_hp \in 1..MaxEnemyHp :
          hunter = NewStage(trample, boss, max_hp)

\* hunters.py 1189-1212: one Borge.attack with the given damage (power, or
\* power x special_damage), up to the call of Hunter.attack
BorgeAttack ==
    /\ pc = "trample"
    /\ hunter.target_hp > 0
    /\ \E damage \in 1..MaxDamage :
        LET wants == trample_applies(hunter.trample, hunter.boss, damage, hunter.max_hp)
            trample_kills == IF wants
                             THEN apply_trample(damage, hunter.others, hunter.max_hp)
                             ELSE 0
            chained == trample_kills > 1
            \* Hunter.attack(target, damage) when no chain kill took place
            hp_left == IF damage >= hunter.target_hp THEN 0
                       ELSE hunter.target_hp - damage
            kills == IF chained THEN trample_kills
                     ELSE IF hp_left = 0 THEN 1 ELSE 0
        IN hunter' = [hunter EXCEPT
                        !.target_hp = IF chained THEN 0 ELSE hp_left,
                        !.others = IF chained THEN @ - (trample_kills - 1) ELSE @,
                        !.last = [damage |-> damage, boss |-> hunter.boss,
                                  max_hp |-> hunter.max_hp, kills |-> kills,
                                  chained |-> chained]]
    /\ UNCHANGED run_frame

\* the next enemy of the stage becomes the target
NextEnemy ==
    /\ pc = "trample"
    /\ hunter.target_hp = 0
    /\ hunter.others > 0
    /\ hunter' = [hunter EXCEPT !.target_hp = hunter.max_hp, !.others = @ - 1]
    /\ UNCHANGED run_frame

\* the stage is cleared and the next one spawns its enemies or its boss
NextStage ==
    /\ pc = "trample"
    /\ hunter.target_hp = 0
    /\ hunter.others = 0
    /\ \E boss \in BOOLEAN, max_hp \in 1..MaxEnemyHp :
          hunter' = [NewStage(hunter.trample, boss, max_hp) EXCEPT !.last = hunter.last]
    /\ UNCHANGED run_frame

Next_Trample == BorgeAttack \/ NextEnemy \/ NextStage

SpecTrample == Init_Trample /\ [][Next_Trample]_vars

\* C21: an attack chain-kills only with the trample mod, on a target that is
\* not a boss and with damage of at least the enemy's max_hp, and no single
\* attack kills more than 10 enemies of the stage.
C21_TrampleOnlyWhenAllowed ==
    pc = "trample"
        => /\ hunter.last.chained
                => /\ hunter.trample
                   /\ ~hunter.last.boss
                   /\ hunter.last.damage >= hunter.last.max_hp
           /\ hunter.last.kills <= 10
           /\ ~hunter.last.chained => hunter.last.kills <= 1

\* one attack has just killed ten enemies of a stage
C21_Witness ==
    /\ pc = "trample"
    /\ hunter.last.chained
    /\ hunter.last.kills = 10


-----------------------------------------------------------------------------
(* SpecHeal: the run of SpecRun with the remaining heals, regeneration and  *)
(* the potion of Unfair Advantage                                           *)

\* hunters.py 1256-1262, 2029-2040, 2596-2601: regen_hp, with regen_value the
\* hunter's regeneration of this tick
regen_hp(h, regen_value) == heal_hp(h, regen_value)

\* hunters.py 1265-1274, 2043-2052, 2603-2611: on_kill when Unfair Advantage
\* procs; potion_healing = max_hp * (ua * 0.02)
on_kill(h, potion_healing) == heal_hp(h, potion_healing)

\* event 'regen': the hunter's regeneration tick
SimRegen ==
    /\ HunterAlive
    /\ hunter.queue = <<>>
    /\ \E regen_value \in 1..MaxHp :
          hunter' = [regen_hp(hunter, regen_value) EXCEPT !.handled = "regen"]
    /\ UNCHANGED run_frame

\* an enemy dies of the hunter's attack and Enemy.on_death calls hunter.on_kill
SimKill ==
    /\ HunterAlive
    /\ hunter.handled \in {"hunter", "hunter_special"}
    /\ \E potion_healing \in 1..MaxHp :
          hunter' = [on_kill(hunter, potion_healing) EXCEPT !.handled = "kill"]
    /\ UNCHANGED run_frame

Next_Heal == Next_Run \/ SimRegen \/ SimKill

SpecHeal == Init_Run /\ [][Next_Heal]_vars

\* C22: at every point of a run hunter.hp is at most hunter.max_hp, whatever
\* heals (lifesteal, regeneration, potion) and revives have taken place.
C22_HpNeverAboveMax ==
    pc = "run" => hunter.hp <= hunter.max_hp

\* a revived hunter has regenerated back to full hit points
C22_Witness ==
    /\ pc = "run"
    /\ hunter.revive_log # <<>>
    /\ hunter.handled = "regen"
    /\ hunter.hp = hunter.max_hp


-----------------------------------------------------------------------------
(* SpecValidate: a hunter is created from a build config and its build is   *)
(* validated (Hunter.load_build, Hunter.validate_build), for Ozzy's tables  *)

MaxOver == 1             \* how far a config's level may lie above a maximum
ValidateLevel == 3       \* meta.level of the validated configs

\* the configs handed to the hunter: levels up to MaxOver above each small
\* maximum, with or without a talent key the tables do not know
ValidateConfigs ==
    { [talents |-> [NoTalents EXCEPT !["death_is_my_companion"] = d,
                                     !["tricksters_boon"] = tb,
                                     !["legacy_of_ultima"] = u],
       attributes |-> [NoAttrs EXCEPT !["living_off_the_land"] = l,
                                      !["wings_of_ibu"] = w,
                                      !["gift_of_medusa"] = g],
       level |-> ValidateLevel,
       unknown_key |-> k] :
        d \in 0..(talent_max["death_is_my_companion"] + MaxOver),
        tb \in 0..(talent_max["tricksters_boon"] + MaxOver),
        u \in 0..1, l \in 0..2, w \in 0..1, g \in 0..1, k \in BOOLEAN }

\* the build invariants a config violates
BuildViolations(config) ==
    (IF config.unknown_key THEN {"unknown-key"} ELSE {})
    \cup (IF TalentSpent(config.talents) > config.level
             \/ AttrSpent(config.attributes) > 3 * config.level
          THEN {"over-budget"} ELSE {})
    \cup (IF (\E t \in Talents : config.talents[t] > talent_max[t])
             \/ (\E a \in Attrs : config.attributes[a] > attr_max[a])
          THEN {"over-max"} ELSE {})
    \cup (IF \E a \in Attrs : config.attributes[a] > 0 /\ ~DepsMet(a, config.attributes)
          THEN {"missing-prereq"} ELSE {})
    \cup (IF \E a \in Attrs : config.attributes[a] > 0
                                /\ ~can_unlock_attribute(a, config.attributes)
          THEN {"point-gate-violation"} ELSE {})
    \cup (IF \E a \in Attrs : config.attributes[a] > 0 /\ Excluded(a, config.attributes)
          THEN {"exclusion-violation"} ELSE {})
    \cup (IF \E t \in talent_requires_all_maxed :
                /\ config.talents[t] > 0
                /\ \E o \in FiniteTalents \ talent_requires_all_maxed :
                      config.talents[o] < talent_max[o]
          THEN {"requires-all-maxed-violation"} ELSE {})

\* hunters.py 144-203: Hunter.load_build copies the dicts of the config into
\* defaultdicts and checks nothing ("Don't validate strictly")
load_build(config) ==
    [kind |-> "Ozzy", phase |-> "loaded", config |-> config,
     outcome |-> "loaded", invalid |-> {}, tal_spent |-> 0, attr_spent |-> 0]

\* hunters.py 216-245: Hunter.validate_build returns (attr_spent,
\* max_attr_points, invalid, tal_spent, level); costs[...][key] of a key the
\* tables do not hold raises KeyError
validate_build(h) ==
    IF h.config.unknown_key
    THEN [h EXCEPT !.phase = "validated", !.outcome = "KeyError"]
    ELSE [h EXCEPT !.phase = "validated",
                   !.outcome = "returned",
                   !.invalid = {t \in Talents : h.config.talents[t] > talent_max[t]}
                               \cup {a \in Attrs : h.config.attributes[a] > attr_max[a]},
                   !.tal_spent = TalentSpent(h.config.talents),
                   !.attr_spent = AttrSpent(h.config.attributes)]

Init_Validate ==
    /\ pc = "validate"
    /\ IdleDriver
    /\ hunter = NoHunter
    /\ gui = NoGui
    /\ effects = NoEffects

\* Ozzy(config): __create__ calls load_build (hunters.py 1642)
CreateHunter ==
    /\ pc = "validate"
    /\ \E config \in ValidateConfigs : hunter' = load_build(config)
    /\ UNCHANGED run_frame

\* show_build calls validate_build (hunters.py 718)
ValidateBuild ==
    /\ pc = "validate"
    /\ hunter.kind = "Ozzy"
    /\ hunter.phase = "loaded"
    /\ hunter' = validate_build(hunter)
    /\ UNCHANGED run_frame

Next_Validate == CreateHunter \/ ValidateBuild

SpecValidate == Init_Validate /\ [][Next_Validate]_vars

\* C23: a config that violates a build invariant (unknown key, over budget,
\* over a maximum, missing prerequisite, point gate, exclusion, requires all
\* maxed) is refused with InvalidBuild, when it is loaded and when it is
\* validated; what is accepted violates none.
C23_InvalidBuildRefused ==
    (pc = "validate" /\ hunter.kind = "Ozzy" /\ BuildViolations(hunter.config) # {})
        => hunter.outcome = "InvalidBuild"

-----------------------------------------------------------------------------
(* The simulation backend: rust_sim.simulate_batch under the driver         *)
(* (SpecBackend).  The runs of the model have use_rust = True, the default  *)
(* of config.get('use_rust', True).                                         *)

\* rust_sim.py 86-87 and 110-111, run_optimization.py 279-297 and 445-449:
\* simulate_batch raises FileNotFoundError when the executable is missing and
\* RuntimeError when it exits with an error; neither successive halving nor
\* its caller catches it, so it reaches the handler of line 1746
RustFails ==
    /\ pc = "sh_round"
    /\ \/ sh.round_num >= sh.rounds
       \/ Len(sh.surviving_configs) <= 1
       \/ Len(sh.surviving_configs) > CacheHits(sh)
    /\ effects' = [effects EXCEPT !.rust_raised = TRUE]
    /\ pc' = "except"
    /\ UNCHANGED <<gui, hunter, submitted, level, mode, builds_per_gen, generation,
                   batch_configs, tested_builds, results, gen_results, top_by,
                   top_lists, generation_history, total_sims, tested, next_id,
                   id_order, progress_file, result_file, sh, stop_event, observed,
                   faults, gen>>

Next_Backend == Next \/ RustFails

SpecBackend == Init /\ [][Next_Backend]_vars

\* C24: when the Rust backend cannot be started or exits with an error, batch
\* evaluation falls back to serial execution and the run still completes: a
\* run in which simulate_batch raised ends with the report of status
\* 'complete', never with status 'error', and is not aborted on the way.
C24_BackendFailureFallsBack ==
    effects.rust_raised =>
        /\ pc # "except"
        /\ pc = "done" => result_file = "complete"

-----------------------------------------------------------------------------
(* The result file over one invocation of run_optimization (Spec) *)

\* C29: in an invocation that ends with the report of status 'complete' the
\* result file is written exactly once: it holds nothing until the run has
\* ended, so never an error record on the way, and the optimization with its
\* IRL baseline simulation is carried out once.  (Lines 1077-1125 run
\* optimize_builds first, which calls run_irl_baseline and then raises
\* NameError at line 653; the handler writes the error record, and the body
\* of lines 1127-1745 then runs the optimization again.)
C29_ResultWrittenOnce ==
    /\ pc # "done" => result_file = "absent"
    /\ pc = "done" /\ result_file = "complete" =>
          /\ effects.result_writes = 1
          /\ effects.run_irl_baseline = 1

-----------------------------------------------------------------------------
(* baseline_builds.py: the balanced baseline builds (SpecBaseline) *)

MaxBaselineLevel == 310     \* levels 0..MaxBaselineLevel are asked for

HunterNames == {"Borge", "Knox", "Ozzy"}

\* range(start, stop, step) as a list
RECURSIVE PyRange(_, _, _)
PyRange(start, stop, step) ==
    IF start >= stop THEN <<>> ELSE <<start>> \o PyRange(start + step, stop, step)

\* baseline_builds.py 150-152
get_baseline_levels == PyRange(10, 301, 10)

\* lines 50-64
talent_priority(hunter_name) ==
    IF hunter_name = "Borge"
    THEN <<"fires_of_war", "omen_of_defeat", "presence_of_god", "impeccable_impacts",
           "life_of_the_hunt", "death_is_my_companion", "unfair_advantage",
           "call_me_lucky_loot">>
    ELSE <<"omen_of_defeat", "presence_of_god", "unfair_advantage", "life_of_the_hunt",
           "fires_of_war", "impeccable_impacts", "death_is_my_companion",
           "call_me_lucky_loot">>

\* lines 87-101
attr_priority(hunter_name) ==
    IF hunter_name \in {"Borge", "Knox"}
    THEN <<"atlas_protocol", "born_for_battle", "soul_of_ares", "helltouch_barrier",
           "lifedrain_inhalers", "weakspot_analysis", "soul_of_hermes",
           "soul_of_the_minotaur">>
    ELSE <<"atlas_protocol", "born_for_battle", "soul_of_hermes", "soul_of_the_minotaur",
           "lifedrain_inhalers", "weakspot_analysis", "soul_of_ares",
           "helltouch_barrier">>

\* faulty variant: two attribute points per level
two_attr_points(lvl) == lvl * 2

\* line 43: attr_points = level * 3
attr_points(lvl) == lvl * 3

\* lines 67-79: the loop over talent_priority; `points` holds the talents
\* set so far, in priority order (a talent the loop skips gets no key: 0 here)
RECURSIVE TalentLoop(_, _, _, _)
TalentLoop(i, n, remaining_talents, points) ==
    IF i >= n THEN <<points, remaining_talents>>
    ELSE IF remaining_talents > 0
         THEN LET priority_weight == n - i
                  total_weight == (n * (n + 1)) \div 2
                  fair_share == Max(1, (remaining_talents * priority_weight) \div total_weight)
                  p == Min(fair_share, remaining_talents)
              IN TalentLoop(i + 1, n, remaining_talents - p, Append(points, p))
         ELSE TalentLoop(i + 1, n, remaining_talents, Append(points, 0))

\* lines 66-83: the talents of the build, with the rest of the points added
\* to the first talent
BaselineTalents(hunter_name, lvl) ==
    LET names == talent_priority(hunter_name)
        out == TalentLoop(0, Len(names), lvl, <<>>)
        points == IF out[2] > 0 THEN [out[1] EXCEPT ![1] = @ + out[2]] ELSE out[1]
    IN [i \in 1..Len(names) |-> <<names[i], points[i]>>]

\* lines 111-123: the weighted pass over attr_priority.  int(q * (weight /
\* total_weight)) is the integer quotient for every q the levels give.
RECURSIVE AttrLoop(_, _, _, _)
AttrLoop(i, n, remaining_attr_points, levels) ==
    IF i >= n THEN <<levels, remaining_attr_points>>
    ELSE IF remaining_attr_points >= 5
         THEN LET weight == n - i
                  total_weight == (n * (n + 1)) \div 2
                  q == remaining_attr_points \div 5
                  w0 == (q * weight) \div total_weight
                  weighted_levels == IF w0 = 0 /\ i = n - 1 THEN 1 ELSE w0
                  l == Min(weighted_levels, q)
              IN AttrLoop(i + 1, n, remaining_attr_points - l * 5, Append(levels, l))
         ELSE AttrLoop(i + 1, n, remaining_attr_points, Append(levels, 0))

\* lines 126-134: what is left goes round the attributes, one level at a time
RECURSIVE AttrRest(_, _, _)
AttrRest(i, remaining_attr_points, levels) ==
    IF remaining_attr_points < 5 THEN levels
    ELSE AttrRest((i % Len(levels)) + 1, remaining_attr_points - 5,
                  [levels EXCEPT ![i] = @ + 1])

\* lines 103-134: the attributes of the build
BaselineAttrs(hunter_name, lvl) ==
    LET names == attr_priority(hunter_name)
        out == AttrLoop(0, Len(names), attr_points(lvl), <<>>)
        levels == AttrRest(1, out[2], out[1])
    IN [i \in 1..Len(names) |-> <<names[i], levels[i]>>]

\* baseline_builds.py 13-148
create_balanced_baseline_build(hunter_name, lvl) ==
    IF hunter_name \notin HunterNames
    THEN [kind |-> "ValueError", hunter |-> hunter_name]
    ELSE IF lvl < 10 \/ lvl > 300 \/ lvl % 10 # 0
    THEN [kind |-> "ValueError", level |-> lvl]
    ELSE [kind |-> "build",
          hunter |-> hunter_name,
          level |-> lvl,
          stats |-> [power |-> lvl, speed |-> lvl, max_hp |-> lvl],
          talents |-> BaselineTalents(hunter_name, lvl),
          attributes |-> BaselineAttrs(hunter_name, lvl)]

Init_Baseline ==
    /\ pc = "baseline"
    /\ IdleDriver
    /\ hunter = NoHunter
    /\ gui = NoGui

\* test_baseline_builds.py 27-29 and baseline_builds.py 160-161: a build is
\* asked for
CreateBaseline ==
    /\ pc = "baseline"
    /\ hunter = NoHunter
    /\ \E hunter_name \in HunterNames, lvl \in 0..MaxBaselineLevel :
          hunter' = create_balanced_baseline_build(hunter_name, lvl)
    /\ UNCHANGED run_frame

\* the caller is done with the build
DropBaseline ==
    /\ pc = "baseline"
    /\ hunter # NoHunter
    /\ hunter' = NoHunter
    /\ UNCHANGED run_frame

Next_Baseline == CreateBaseline \/ DropBaseline

SpecBaseline == Init_Baseline /\ [][Next_Baseline]_vars

\* the sum of the second components of a list of pairs
RECURSIVE PairSum(_)
PairSum(pairs) == IF pairs = <<>> THEN 0 ELSE Head(pairs)[2] + PairSum(Tail(pairs))

\* C26: a balanced baseline build of Borge, Knox or Ozzy at a level of 10,
\* 20, ..., 300 has power = speed = max_hp = level, talent levels that sum to
\* the level and attribute levels whose cost of 5 each sums to 3 x level;
\* get_baseline_levels returns exactly 10, 20, ..., 300.
C26_BaselineBuildsBalanced ==
    /\ get_baseline_levels = [i \in 1..30 |-> 10 * i]
    /\ hunter.kind = "build" =>
          /\ hunter.level \in Range(get_baseline_levels)
          /\ hunter.stats = [power |-> hunter.level, speed |-> hunter.level,
                             max_hp |-> hunter.level]
          /\ PairSum(hunter.talents) = hunter.level
          /\ PairSum(hunter.attributes) * 5 = 3 * hunter.level

\* Ozzy's baseline build of level 300 has been created: 170 points in the
\* first talent, 8 levels in the last attribute
C26_Witness ==
    /\ hunter.kind = "build"
    /\ hunter.hunter = "Ozzy"
    /\ hunter.level = 300
    /\ hunter.talents[1] = <<"omen_of_defeat", 170>>
    /\ hunter.attributes[8] = <<"helltouch_barrier", 8>>

-----------------------------------------------------------------------------
(* The progress records over one run (Spec) *)

\* gui_multi.py 3230: progress_data.get('progress', 0)
ReadProgress(record) ==
    IF record.progress = NoProgressKey THEN 0 ELSE record.progress

\* C27: what an observer reads from successive progress records of one run
\* never goes backwards: from one record to the next the generation and the
\* progress percentage ('progress', 0 when the record has no such key) do
\* not decrease, and the progress is within 0..100.
C27_ProgressNeverBackwards ==
    [][progress_file.kind = "record" /\ progress_file'.kind = "record" =>
          /\ progress_file'.generation >= progress_file.generation
          /\ ReadProgress(progress_file') >= ReadProgress(progress_file)
          /\ ReadProgress(progress_file') \in 0..100]_vars

-----------------------------------------------------------------------------
(* The driver's simulation counter (Spec) *)

\* C28: what the driver adds to total_sims for a tier is the number of
\* simulations successive halving has run for that tier: the sum, over the
\* batches it simulated, of the configs in the batch times the trials each.
\* (Lines 1606-1616 compute the figure from len(batch_configs) alone, for
\* rounds + 1 rounds; the call runs fewer when one candidate is left or the
\* similarity cache answers.)
C28_TotalSimsIsExecuted ==
    [][pc = "process" /\ pc' = "batch_open" =>
          total_sims' - total_sims = sh.simulated]_vars

-----------------------------------------------------------------------------
(* MultiHunterGUI: the sequential run of the selected hunters (SpecSeq).    *)
(* gui holds the sequential queue, the tabs' flags, the two buttons and the *)
(* callbacks that root.after has scheduled and that have not yet run.       *)

TabOrder == <<"Borge", "Ozzy", "Knox">>

\* every variable but gui
seq_frame == <<pc, level, mode, builds_per_gen, generation, batch_configs, tested_builds,
               results, gen_results, top_by, top_lists, generation_history,
               total_sims, tested, next_id, id_order, progress_file, result_file,
               sh, stop_event, observed, faults, submitted, gen, hunter, effects>>

Timer(cb, hunter_name) == [cb |-> cb, hunter |-> hunter_name]

\* gui_multi.py 3920: at start-up the initialization of the Borge tab is
\* scheduled (root.after(100, ...)); the other tabs are initialized when they
\* are first shown
Init_Seq ==
    /\ pc = "gui"
    /\ IdleDriver
    /\ hunter = NoHunter
    /\ gui = [kind |-> "gui",
              sequential_queue |-> <<>>,
              content_initialized |-> {},
              is_running |-> {},
              timers |-> {Timer("on_tab_visible", "Borge")},
              run_all_btn |-> "normal",
              stop_all_btn |-> "disabled",
              stopped |-> FALSE]    \* ghost: Stop All has been pressed

\* lines 5476-5483: the tab's optimization is started unless it is running,
\* and the completion check is scheduled
start_hunter_after_init(g, hunter_name) ==
    [g EXCEPT !.is_running = @ \cup {hunter_name},
              !.timers = @ \cup {Timer("check_sequential_complete", "none")}]

\* lines 5450-5474: the next hunter is popped and started, after 200 ms when
\* its tab had to be initialized first
run_next_sequential(g) ==
    IF g.sequential_queue = <<>>
    THEN [g EXCEPT !.run_all_btn = "normal", !.stop_all_btn = "disabled"]
    ELSE LET next_hunter == Head(g.sequential_queue)
             g1 == [g EXCEPT !.sequential_queue = Tail(@)]
         IN IF next_hunter \notin g.content_initialized
            THEN [g1 EXCEPT !.content_initialized = @ \cup {next_hunter},
                            !.timers = @ \cup {Timer("start_hunter_after_init",
                                                     next_hunter)}]
            ELSE start_hunter_after_init(g1, next_hunter)

\* lines 5485-5512
check_sequential_complete(g) ==
    IF g.is_running # {}
    THEN [g EXCEPT !.timers = @ \cup {Timer("check_sequential_complete", "none")}]
    ELSE IF g.sequential_queue # <<>>
         THEN [g EXCEPT !.timers = @ \cup {Timer("run_next_sequential", "none")}]
         ELSE run_next_sequential(g)

\* the selections of the three check boxes, in tab order
Selections ==
    {sel \in UNION {[1..n -> Range(TabOrder)] : n \in 1..Len(TabOrder)} :
        \A i, j \in 1..Len(sel) :
            i < j => \E a, b \in 1..Len(TabOrder) :
                        a < b /\ TabOrder[a] = sel[i] /\ TabOrder[b] = sel[j]}

\* lines 5420-5448: Run All
RunAllHunters ==
    /\ pc = "gui"
    /\ gui.run_all_btn = "normal"
    /\ ~gui.stopped
    /\ \E selected \in Selections :
          gui' = run_next_sequential([gui EXCEPT !.run_all_btn = "disabled",
                                                 !.stop_all_btn = "normal",
                                                 !.sequential_queue = selected])
    /\ UNCHANGED seq_frame

\* a callback scheduled with root.after runs
TimerFires ==
    /\ pc = "gui"
    /\ \E t \in gui.timers :
          LET g == [gui EXCEPT !.timers = @ \ {t}]
          IN gui' = IF t.cb = "on_tab_visible"
                    THEN [g EXCEPT !.content_initialized = @ \cup {t.hunter}]
                    ELSE IF t.cb = "start_hunter_after_init"
                    THEN start_hunter_after_init(g, t.hunter)
                    ELSE IF t.cb = "check_sequential_complete"
                    THEN check_sequential_complete(g)
                    ELSE run_next_sequential(g)
    /\ UNCHANGED seq_frame

\* lines 3413 and 3530: a tab's optimization ends
OptimizationComplete ==
    /\ pc = "gui"
    /\ \E hunter_name \in gui.is_running :
          gui' = [gui EXCEPT !.is_running = @ \ {hunter_name}]
    /\ UNCHANGED seq_frame

\* lines 638 and 705-709: the user shows a tab for the first time
OnTabVisible ==
    /\ pc = "gui"
    /\ \E hunter_name \in Range(TabOrder) \ gui.content_initialized :
          gui' = [gui EXCEPT !.content_initialized = @ \cup {hunter_name}]
    /\ UNCHANGED seq_frame

\* lines 5514-5528: Stop All clears the queue and sets the stop event of the
\* running tabs, which stay running until their subprocess has ended
StopAllHunters ==
    /\ pc = "gui"
    /\ gui.stop_all_btn = "normal"
    /\ gui' = [gui EXCEPT !.sequential_queue = <<>>,
                          !.run_all_btn = "normal",
                          !.stop_all_btn = "disabled",
                          !.stopped = TRUE]
    /\ UNCHANGED seq_frame

Next_Seq ==
    RunAllHunters \/ TimerFires \/ OptimizationComplete \/ OnTabVisible \/ StopAllHunters

SpecSeq == Init_Seq /\ [][Next_Seq]_vars

\* C30: after Stop All during a sequential run of several hunters no further
\* hunter optimization is started: the queue stays empty and no callback
\* that was already scheduled launches another hunter.
C30_NothingStartsAfterStopAll ==
    [][gui.kind = "gui" /\ gui.stopped =>
          /\ gui'.sequential_queue = <<>>
          /\ gui'.is_running \subseteq gui.is_running]_vars

====
